---- MODULE Spec2Model ----
(***************************************************************************)
(* State-machine model of the BeamMP racing server (src/src/server/mod.rs  *)
(* and the main loop of src/src/main.rs).                                  *)
(*                                                                         *)
(* Two tasks are modelled: the game-TCP acceptor task spawned by           *)
(* Server::new, and the main task, which runs server_main's loop: wait     *)
(* (select / sleep), then Server::process.  Server::process is split at    *)
(* its own section boundaries (the wait and the staging drain; UDP and TCP *)
(* routing; disconnect removal; checkpoints, whitelist check and state     *)
(* machine); pc is the main task's position, and the acceptor may run      *)
(* between any two sections.                                               *)
(*                                                                         *)
(* The clients' send queues are not kept in the state: what a section      *)
(* queues or writes is the `out` field of the value its operator returns,  *)
(* each packet with its receiver and the receiver's state at that moment.  *)
(*                                                                         *)
(* server_main hands what its select read to Server::process_tcp and       *)
(* Server::process_udp, which src/ does not contain; here every frame and  *)
(* datagram of a tick is read and routed by Server::process.               *)
(*                                                                         *)
(* Not modelled: the physics advisory, and of the overlays the periodic    *)
(* refresh of laps, positions and lap times (nothing modelled here reads   *)
(* them).  The track_limits_client cursor is a choice among the clients.   *)
(*                                                                         *)
(* Byte strings (packets, usernames) are sequences of byte values.         *)
(* Time is in milliseconds; each Instant is kept as the time elapsed since *)
(* it was taken, saturating at MaxElapsed (MaxTimer0 for generic_timer0).  *)
(***************************************************************************)
EXTENDS Integers, Sequences, FiniteSets, TLC

VARIABLES
    pc,                 \* main task: "drain", "route", "remove", "advance", "panicked", "exited"
    cfg,                \* the Config the server was started with
    clients,            \* Server.clients
    clients_incoming,   \* Server.clients_incoming (staging list)
    acc_pending,        \* acceptor: the authenticated client it holds the staging lock for (<<>> if none)
    accept_alive,       \* connect_runtime_handle not aborted
    next_id,            \* number of sessions authenticated so far (next client id)
    server_state,
    state_elapsed,      \* server_state_start.elapsed(), ms
    timer0,             \* generic_timer0.elapsed(), ms
    countdown,
    allow_spawns,
    force_respawn_pits,
    allow_respawns,
    finish_order,
    joined_names,       \* process(): the local joined_names of the running tick
    overlay_incoming,   \* Server.overlay_incoming: (username, overlay) pairs the overlay acceptor staged
    unconnected_overlays, \* Server.unconnected_overlays: drained pairs not bound to a client yet
    result              \* server_main: what the last call of process() returned
                        \* ("ok", "err"; "none" before the first return and during a call)

vars == <<pc, cfg, clients, clients_incoming, acc_pending, accept_alive, next_id, result,
          server_state, state_elapsed, timer0, countdown, allow_spawns,
          force_respawn_pits, allow_respawns, finish_order, joined_names,
          overlay_incoming, unconnected_overlays>>

(***************************************************************************)
(* Bounds of the model                                                     *)
(***************************************************************************)
MaxSessions == 2        \* sessions the acceptor authenticates in one run
MaxElapsed == 301000    \* server_state_start and lap_start: elapsed times saturate here (ms)
MaxTimer0 == 31000      \* generic_timer0: its elapsed time saturates here (ms)
MaxLapCount == 1        \* a car's lap counter is not driven beyond this

(***************************************************************************)
(* Program constants                                                       *)
(***************************************************************************)
WaitClientsSecs == 300
DefaultQualTime == 120
DefaultMaxLaps == 5
LineupTimeoutSecs == 45
CountdownStepMs == 1000
RaceUpdateMs == 50
FinishExitSecs == 30
InitialCountdown == 5
U8Mod == 256

\* ServerState
Unknown == "Unknown"
WaitingForClients == "WaitingForClients"
WaitingForReady == "WaitingForReady"
WaitingForSpawns == "WaitingForSpawns"
Qualifying == "Qualifying"
LiningUp == "LiningUp"
Countdown == "Countdown"
Race == "Race"
Finish == "Finish"

\* ClientState
Connected == "Connected"
Disconnect == "Disconnect"

None == -1

(***************************************************************************)
(* Generic helpers                                                         *)
(***************************************************************************)
Min(a, b) == IF a < b THEN a ELSE b

SeqToSet(s) == {s[i] : i \in 1..Len(s)}

\* Vec::remove(i), 0-based i
RemoveAt(s, i) == [k \in 1..(Len(s) - 1) |-> IF k <= i THEN s[k] ELSE s[k + 1]]

\* Vec::swap_remove(i), 0-based i: the last element takes the place of element i
SwapRemove(s, i) ==
    LET n == Len(s)
        moved == [s EXCEPT ![i + 1] = s[n]]
    IN  SubSeq(moved, 1, n - 1)

\* Duration::as_secs of a millisecond count
AsSecs(ms) == ms \div 1000

\* an Instant taken e ms ago, dt more ms later
Later(e, dt, cap) == Min(e + dt, cap)

(***************************************************************************)
(* Strings: str::trim                                                      *)
(***************************************************************************)
IsSpace(b) == b \in {9, 10, 11, 12, 13, 32}

RECURSIVE TrimStart(_)
TrimStart(s) ==
    IF s = <<>> THEN s
    ELSE IF IsSpace(Head(s)) THEN TrimStart(Tail(s)) ELSE s

RECURSIVE TrimEnd(_)
TrimEnd(s) ==
    IF s = <<>> THEN s
    ELSE IF IsSpace(s[Len(s)]) THEN TrimEnd(SubSeq(s, 1, Len(s) - 1)) ELSE s

Trim(s) == TrimEnd(TrimStart(s))

(***************************************************************************)
(* Configuration (Config, read once at startup) and inputs                 *)
(***************************************************************************)
NameApad == <<32, 97>>      \* " a": expected once trimmed
NameC == <<99>>             \* "c": not expected
Names == {NameApad, NameC}

\* the milliseconds that pass while the main loop waits for input
Dt == {0, 150000}

\* car positions, as far as the map's regions tell them apart:
\* 0 = in no checkpoint region, n = in the region of checkpoint n-1 only
Points == {0, 1}

\* The map's spawn files are configured.
Configs ==
    { [ expected_clients |-> << <<97, 32>> >>,      \* ["a "]
        max_laps |-> 0, max_cars |-> 1, qual_time |-> None,
        checkpoints |-> << {1} >>,
        track_limits |-> <<>>, track_limits_pit |-> <<>> ] }

(***************************************************************************)
(* Client sessions (client.rs)                                             *)
(***************************************************************************)
NewClient(id, name) ==
    [ id |-> id, name |-> name, state |-> Connected, ready |-> FALSE,
      finished |-> FALSE, grid_spot |-> 0, udp_addr |-> None, cars |-> <<>>,
      incidents |-> 0, overlay |-> None ]

\* a packet handed to a client: how, what, and the state the client was in
Msg(c, via, data, bcast) ==
    [ to |-> c.id, via |-> via, data |-> data, bcast |-> bcast,
      disc |-> (c.state = Disconnect) ]

\* Client::kick: best-effort write of the kick packet, then Disconnect
Kick(c) == [c EXCEPT !.state = Disconnect]

(***************************************************************************)
(* Initial state: Server::new                                              *)
(***************************************************************************)
Init ==
    /\ pc = "drain"
    /\ cfg \in Configs
    /\ clients = <<>>
    /\ clients_incoming = <<>>
    /\ acc_pending = <<>>
    /\ accept_alive = TRUE
    /\ next_id = 0
    /\ server_state = WaitingForClients
    /\ state_elapsed = 0
    /\ timer0 = 0
    /\ countdown = InitialCountdown
    /\ allow_spawns = FALSE
    /\ force_respawn_pits = FALSE
    /\ allow_respawns = TRUE
    /\ finish_order = <<>>
    /\ joined_names = <<>>
    /\ overlay_incoming = <<>>
    /\ unconnected_overlays = <<>>
    /\ result = "none"

Running == pc \notin {"panicked", "exited"}

(***************************************************************************)
(* The acceptor task (Server::new, connect_runtime_handle)                 *)
(***************************************************************************)
\* accept + authenticate.  On success the task takes the staging lock.
AcceptAuth ==
    /\ Running
    /\ accept_alive
    /\ acc_pending = <<>>
    /\ next_id < MaxSessions
    /\ \E name \in Names, ok \in BOOLEAN :
          /\ next_id' = next_id + 1
          /\ acc_pending' = IF ok THEN <<NewClient(next_id, name)>> ELSE <<>>
    /\ UNCHANGED <<pc, cfg, clients, clients_incoming, accept_alive, server_state,
                   state_elapsed, timer0, countdown, allow_spawns, force_respawn_pits,
                   allow_respawns, finish_order, joined_names, result,
                   overlay_incoming, unconnected_overlays>>

\* lock.push(client); drop(lock): no await in between, so an abort of the
\* task does not prevent it
AcceptPush ==
    /\ Running
    /\ acc_pending # <<>>
    /\ clients_incoming' = Append(clients_incoming, acc_pending[1])
    /\ acc_pending' = <<>>
    /\ UNCHANGED <<pc, cfg, clients, accept_alive, next_id, server_state,
                   state_elapsed, timer0, countdown, allow_spawns, force_respawn_pits,
                   allow_respawns, finish_order, joined_names, result,
                   overlay_incoming, unconnected_overlays>>

(***************************************************************************)
(* Main task: server_main's wait, then process(): staging drain            *)
(***************************************************************************)
AgeCar(car, dt) ==
    [car EXCEPT !.lap_start = IF @ = None THEN None ELSE Later(@, dt, MaxElapsed)]

AgeClient(c, dt) ==
    [c EXCEPT !.cars = [k \in 1..Len(c.cars) |-> AgeCar(c.cars[k], dt)]]

\* for i in 0..n { names.push(inc[i].username); clients.push(inc.swap_remove(i)) }
\* with n the length before the loop; inc[i] panics when i is out of bounds
RECURSIVE DrainLoop(_, _, _)
DrainLoop(i, n, st) ==
    IF i >= n THEN st
    ELSE IF i >= Len(st.inc) THEN [st EXCEPT !.status = "panic"]
    ELSE DrainLoop(i + 1, n,
            [ inc |-> SwapRemove(st.inc, i),
              cl |-> Append(st.cl, st.inc[i + 1]),
              names |-> Append(st.names, st.inc[i + 1].name),
              status |-> "ok" ])

DrainStaging(inc, cl, locked) ==
    LET st0 == [inc |-> inc, cl |-> cl, names |-> <<>>, status |-> "ok"]
    IN  IF locked THEN st0          \* try_lock failed: skipped this tick
        ELSE DrainLoop(0, Len(inc), st0)

\* for i in 0..n { unconnected_overlays.push(inc.swap_remove(i)) } with n the
\* length before the loop; swap_remove(i) panics when i is out of bounds
RECURSIVE OverlayDrainLoop(_, _, _)
OverlayDrainLoop(i, n, st) ==
    IF i >= n THEN st
    ELSE IF i >= Len(st.inc) THEN [st EXCEPT !.status = "panic"]
    ELSE OverlayDrainLoop(i + 1, n,
            [ inc |-> SwapRemove(st.inc, i),
              un |-> Append(st.un, st.inc[i + 1]),
              status |-> "ok" ])

\* the overlay acceptor holds the lock for its push only: try_lock succeeds
DrainOverlays(inc, un) ==
    OverlayDrainLoop(0, Len(inc), [inc |-> inc, un |-> un, status |-> "ok"])

\* for j in 0..clients.len(): the pair at index 0 of unconnected_overlays, if
\* there is one and it names clients[j], becomes the overlay of clients[j]
RECURSIVE BindOverlays(_, _, _)
BindOverlays(j, cl, un) ==
    IF j > Len(cl) \/ un = <<>> THEN [cl |-> cl, un |-> un]
    ELSE IF cl[j].name = un[1][1]
         THEN BindOverlays(j + 1, [cl EXCEPT ![j].overlay = un[1][2]], SwapRemove(un, 0))
         ELSE BindOverlays(j + 1, cl, un)

\* the select / sleep of server_main returns after dt ms, process() starts
Drain ==
    /\ pc = "drain"
    /\ \E dt \in Dt :
          LET aged == [k \in 1..Len(clients) |-> AgeClient(clients[k], dt)]
              st == DrainStaging(clients_incoming, aged, acc_pending # <<>>)
              ov == IF st.status = "panic"
                    THEN [inc |-> overlay_incoming, un |-> unconnected_overlays, status |-> "panic"]
                    ELSE DrainOverlays(overlay_incoming, unconnected_overlays)
              bound == IF ov.status = "panic" THEN [cl |-> st.cl, un |-> ov.un]
                       ELSE BindOverlays(1, st.cl, ov.un)
          IN  /\ state_elapsed' = Later(state_elapsed, dt, MaxElapsed)
              /\ timer0' = Later(timer0, dt, MaxTimer0)
              /\ clients' = bound.cl
              /\ clients_incoming' = st.inc
              /\ joined_names' = st.names
              /\ overlay_incoming' = ov.inc
              /\ unconnected_overlays' = bound.un
              /\ pc' = IF ov.status = "panic" THEN "panicked" ELSE "route"
    /\ result' = "none"
    /\ UNCHANGED <<cfg, acc_pending, accept_alive, next_id, server_state,
                   countdown, allow_spawns, force_respawn_pits, allow_respawns,
                   finish_order>>

(***************************************************************************)
(* Packet codec helpers                                                    *)
(***************************************************************************)
Colon == 58
Dash == 45
Semi == 59
Digit0 == 48

\* a u8 subtraction a - b: with overflow checks (debug profile) a negative
\* result panics, without (release profile) it wraps.  -1 stands for the panic.
SubU8(a, b, checks) ==
    IF a >= b THEN a - b
    ELSE IF checks THEN -1 ELSE (a - b) % U8Mod

\* str::split / str::splitn(n, seps): the pieces between separators, at most
\* n pieces (n = 0: no limit), the last piece keeping the rest
RECURSIVE SplitFrom(_, _, _, _)
SplitFrom(s, seps, n, cur) ==
    IF s = <<>> THEN <<cur>>
    ELSE IF Head(s) \in seps /\ n # 1
         THEN <<cur>> \o SplitFrom(Tail(s), seps, IF n = 0 THEN 0 ELSE n - 1, <<>>)
         ELSE SplitFrom(Tail(s), seps, n, Append(cur, Head(s)))

Split(s, seps) == SplitFrom(s, seps, 0, <<>>)
SplitN(s, n, seps) == SplitFrom(s, seps, n, <<>>)

IsDigit(b) == b >= 48 /\ b <= 57

RECURSIVE DigitsValue(_, _)
DigitsValue(s, acc) ==
    IF s = <<>> THEN acc
    ELSE DigitsValue(Tail(s), Min(acc * 10 + (Head(s) - Digit0), U8Mod))

\* str::parse::<u8>: an optional '+', then one or more digits, value <= 255;
\* -1 stands for Err(ParseIntError)
ParseU8(s) ==
    LET body == IF s # <<>> /\ Head(s) = 43 THEN Tail(s) ELSE s
    IN  IF body = <<>> \/ \E i \in 1..Len(body) : ~IsDigit(body[i]) THEN -1
        ELSE IF DigitsValue(body, 0) >= U8Mod THEN -1
        ELSE DigitsValue(body, 0)

\* str::parse::<f32> on decimal notation: an optional sign, digits with at
\* most one '.', at least one digit
ParseF32Ok(s) ==
    LET body == IF s # <<>> /\ Head(s) \in {43, 45} THEN Tail(s) ELSE s
    IN  /\ \E i \in 1..Len(body) : IsDigit(body[i])
        /\ \A i \in 1..Len(body) : IsDigit(body[i]) \/ body[i] = 46
        /\ Cardinality({i \in 1..Len(body) : body[i] = 46}) <= 1

ABG == <<65, 66, 71, 58>>       \* "ABG:"

\* the compression envelope test: more than 3 bytes, starting with "ABG:"
IsCompressed(data) == Len(data) > 3 /\ SubSeq(data, 1, 4) = ABG

\* zlib: a stream is written here as the byte 120 (the zlib header byte)
\* followed by the bytes it decompresses to; anything else is not a stream
DecompressOk(body) == body # <<>> /\ body[1] = 120
Decompress(body) == Tail(body)

\* serde_json for TransformPacket / RespawnPacketData: a document is written
\* here as "{p}", p the digit of the position (a member of Points) it carries
JsonOk(body) ==
    /\ Len(body) = 3
    /\ body[1] = 123 /\ body[3] = 125
    /\ (body[2] - Digit0) \in Points
JsonPos(body) == body[2] - Digit0

(***************************************************************************)
(* Cars (car.rs) and the client's car list (client.rs)                     *)
(***************************************************************************)
NewCar(id) ==
    [ id |-> id, pos |-> 0, laps |-> 0, lap_start |-> None, lap_times |-> <<>>,
      next_checkpoint |-> 0, active_checkpoint |-> 0, intersects_cp |-> FALSE,
      latest_vel_angle_to_track |-> 0, offtrack_start |-> None ]

CarIds(c) == {c.cars[k].id : k \in 1..Len(c.cars)}

\* Client::register_car: the car gets the lowest id the client does not use
FreeCarId(c) == CHOOSE n \in 0..Len(c.cars) : n \notin CarIds(c)
RegisterCar(c) == [c EXCEPT !.cars = Append(@, NewCar(FreeCarId(c)))]

\* Client::unregister_car
UnregisterCar(c, car_id) ==
    [c EXCEPT !.cars = SelectSeq(@, LAMBDA car : car.id # car_id)]

HasCar(c, car_id) == car_id \in CarIds(c)

\* the car car_id of client c replaced by car (Client::get_car_mut)
PutCar(c, car_id, car) ==
    [c EXCEPT !.cars = [k \in 1..Len(c.cars) |->
        IF c.cars[k].id = car_id THEN car ELSE c.cars[k]]]

\* the car car_id of client c (the client has it)
GetCar(c, car_id) == c.cars[CHOOSE k \in 1..Len(c.cars) : c.cars[k].id = car_id]

(***************************************************************************)
(* Routing state: the client list, what was sent, and how routing ended    *)
(***************************************************************************)
Rs(cl, out, status) == [cl |-> cl, out |-> out, status |-> status]

\* Server::broadcast: queue the packet to every client but the owner
RECURSIVE BroadcastTo(_, _, _, _)
BroadcastTo(cl, owner, data, via) ==
    IF cl = <<>> THEN <<>>
    ELSE (IF owner # None /\ Head(cl).id = owner THEN <<>>
          ELSE <<Msg(Head(cl), via, data, TRUE)>>)
         \o BroadcastTo(Tail(cl), owner, data, via)

\* a broadcast that does not skip the owner
BroadcastOwnerToo(cl, owner, data) == BroadcastTo(cl, None, data, "queue")

Broadcast(cl, owner, data) == BroadcastTo(cl, owner, data, "queue")

\* Server::broadcast_udp: only to clients with a known UDP address
BroadcastUdp(cl, owner, data) ==
    BroadcastTo(SelectSeq(cl, LAMBDA c : c.udp_addr # None), owner, data, "udp")

(***************************************************************************)
(* UDP routing: Server::parse_packet_udp and the demux in process()        *)
(***************************************************************************)
SetPos(car, p) == [car EXCEPT !.pos = p]

\* the 'Z' arm's loop over the clients, from index k (1-based) on
RECURSIVE ZLoop(_, _, _, _, _, _)
ZLoop(k, rs, client_id, car_id, p, data) ==
    IF k > Len(rs.cl) THEN rs
    ELSE LET c == rs.cl[k] IN
         IF c.id = client_id
         THEN IF ~HasCar(c, car_id) THEN [rs EXCEPT !.status = "err"]   \* CarDoesntExist
              ELSE ZLoop(k + 1,
                         [rs EXCEPT !.cl[k] = PutCar(c, car_id, SetPos(GetCar(c, car_id), p))],
                         client_id, car_id, p, data)
         ELSE ZLoop(k + 1,
                    IF c.udp_addr # None
                    THEN [rs EXCEPT !.out = Append(@, Msg(c, "udp", data, TRUE))]
                    ELSE rs,
                    client_id, car_id, p, data)

ParseZ(rs, data, checks) ==
    IF Len(data) < 7 THEN [rs EXCEPT !.status = "err"]                  \* BrokenPacket
    ELSE LET client_id == SubU8(data[4], Digit0, checks)
             car_id == SubU8(data[6], Digit0, checks)
             json == SubSeq(data, 8, Len(data))
         IN  IF client_id = -1 \/ car_id = -1 THEN [rs EXCEPT !.status = "panic"]
             ELSE IF ~JsonOk(json) THEN [rs EXCEPT !.status = "err"]
             ELSE ZLoop(1, rs, client_id, car_id, JsonPos(json), data)

\* parse_packet_udp(client_idx, udp_addr, packet); idx is 1-based here
ParsePacketUdp(rs, idx, addr, raw, checks) ==
    IF Len(raw) = 0 THEN rs
    ELSE
    LET rs1 == [rs EXCEPT !.cl[idx].udp_addr = addr]
        client_id == rs.cl[idx].id
    IN  IF IsCompressed(raw) /\ ~DecompressOk(SubSeq(raw, 5, Len(raw)))
        THEN [rs1 EXCEPT !.status = "err"]
        ELSE
        LET data == IF IsCompressed(raw) THEN Decompress(SubSeq(raw, 5, Len(raw))) ELSE raw
        IN  IF data = <<>> THEN [rs1 EXCEPT !.status = "panic"]         \* packet.data[0]
            ELSE IF data[1] >= 86 /\ data[1] <= 89
                 THEN [rs1 EXCEPT !.out = @ \o BroadcastUdp(rs1.cl, client_id, data)]
            ELSE IF data[1] = 112                                        \* 'p'
                 THEN [rs1 EXCEPT !.out = Append(@, Msg(rs1.cl[idx], "udp", <<112>>, FALSE))]
            ELSE IF data[1] = 90                                         \* 'Z'
                 THEN ParseZ(rs1, data, checks)
            ELSE rs1

\* index (1-based) of the first client with this id, 0 if there is none
FirstWithId(cl, id) ==
    IF \E k \in 1..Len(cl) : cl[k].id = id
    THEN CHOOSE k \in 1..Len(cl) : cl[k].id = id /\ \A j \in 1..(k - 1) : cl[j].id # id
    ELSE 0

\* one datagram of the demux loop of process()
DemuxUdp(rs, dg, checks) ==
    IF Len(dg.data) = 0 THEN rs
    ELSE LET id == SubU8(dg.data[1], 1, checks) IN
         IF id = -1 \/ Len(dg.data) < 2 THEN [rs EXCEPT !.status = "panic"]
         ELSE LET idx == FirstWithId(rs.cl, id) IN
              IF idx = 0 THEN rs
              ELSE ParsePacketUdp(rs, idx, dg.addr, SubSeq(dg.data, 3, Len(dg.data)), checks)

\* for (addr, packet) in read_udp_packets() { ... ? }
RECURSIVE RouteUdp(_, _, _)
RouteUdp(rs, dgs, checks) ==
    IF dgs = <<>> \/ rs.status # "ok" THEN rs
    ELSE RouteUdp(DemuxUdp(rs, Head(dgs), checks), Tail(dgs), checks)

(***************************************************************************)
(* Server-made packets                                                     *)
(***************************************************************************)
RECURSIVE Dec(_)
\* format!("{}", n) of an unsigned number
Dec(n) == IF n < 10 THEN <<Digit0 + n>> ELSE Dec(n \div 10) \o <<Digit0 + (n % 10)>>

OdPacket(client_id, car_id) == <<79, 100, 58>> \o Dec(client_id) \o <<Dash>> \o Dec(car_id)

\* "Os:<roles>:<name>:<cid>-<car_id>:<json>"
OsPacket(c, car_id, json) ==
    <<79, 115, 58, 85, 83, 69, 82, 58>> \o c.name \o <<Colon>> \o Dec(c.id) \o <<Dash>> \o Dec(car_id)
        \o <<Colon>> \o json

SnPacket(c) == <<83, 110>> \o c.name
WelcomePacket(name) == <<74, 87, 101, 108, 99, 111, 109, 101, 32>> \o name \o <<33>>
ReadyReply == <<67, 58, 83, 101, 114, 118, 101, 114, 58, 89, 111, 117, 32, 97, 114, 101, 32, 110, 111, 119, 32, 114, 101, 97, 100, 121, 33>>
UnknownReply == <<67, 58, 83, 101, 114, 118, 101, 114, 58, 85, 110, 107, 110, 111, 119, 110, 32, 99, 111, 109, 109, 97, 110, 100, 33>>
KickIoError == <<75, 75, 105, 99, 107, 101, 100, 58, 32, 67, 111, 110, 110, 101, 99, 116, 105, 111, 110, 69, 114, 114, 111, 114>>
KickNotWhitelisted == <<75, 78, 111, 116, 32, 119, 104, 105, 116, 101, 108, 105, 115, 116, 101, 100, 32, 102, 111, 114, 32, 116, 104, 105, 115, 32, 115, 101, 114, 118, 101, 114, 33>>
KickNotReady == <<75, 78, 111, 116, 32, 114, 101, 97, 100, 121, 32, 105, 110, 32, 116, 105, 109, 101, 33>>
EventGetSize(c) == <<69, 58, 71, 101, 116, 83, 105, 122, 101, 58>> \o Dec(c.id)
EventRespawn == <<69, 58, 82, 101, 115, 112, 97, 119, 110, 58>>

\* Client::kick(msg): the kick packet is written, then the state is Disconnect
KickMsg(c, text) == Msg(c, "kick", text, FALSE)

(***************************************************************************)
(* TCP routing: Server::parse_vehicle_packet                               *)
(***************************************************************************)
\* a spawn decision that lets a client holding max_cars cars have one more
SpawnAllowedAtLimit(c) ==
    /\ allow_spawns
    /\ ~(cfg.max_cars # None /\ Len(c.cars) > cfg.max_cars)

SpawnAllowed(c) ==
    /\ allow_spawns
    /\ ~(cfg.max_cars # None /\ Len(c.cars) >= cfg.max_cars)

\* an 's' arm that broadcasts the Os of a denied spawn like that of an
\* allowed one
VehicleSpawnDeniedBroadcast(rs, idx, data) ==
    LET c == rs.cl[idx]
        parts == SplitN(data, 3, {Colon})
    IN  IF Len(parts) < 3 THEN [rs EXCEPT !.status = "err"]
        ELSE LET car_id == FreeCarId(c)
                 c1 == RegisterCar(c)
                 os == OsPacket(c, car_id, parts[3])
             IN  IF SpawnAllowed(c)
                 THEN LET cl1 == [rs.cl EXCEPT ![idx] = c1]
                      IN  Rs(cl1,
                             rs.out \o <<Msg(c, "event", EventGetSize(c), FALSE)>>
                                    \o Broadcast(cl1, None, os),
                             "ok")
                 ELSE Rs([rs.cl EXCEPT ![idx] = UnregisterCar(c1, car_id)],
                         rs.out \o Broadcast(rs.cl, None, os)
                                \o <<Msg(c, "write", OdPacket(c.id, car_id), FALSE)>>,
                         "ok")

VehicleSpawn(rs, idx, data) ==
    LET c == rs.cl[idx]
        parts == SplitN(data, 3, {Colon})
    IN  IF Len(parts) < 3 THEN [rs EXCEPT !.status = "err"]
        ELSE LET car_id == FreeCarId(c)
                 c1 == RegisterCar(c)
                 os == OsPacket(c, car_id, parts[3])
             IN  IF SpawnAllowed(c)
                 THEN LET cl1 == [rs.cl EXCEPT ![idx] = c1]
                      IN  Rs(cl1,
                             rs.out \o <<Msg(c, "event", EventGetSize(c), FALSE)>>
                                    \o Broadcast(cl1, None, os),
                             "ok")
                 ELSE Rs([rs.cl EXCEPT ![idx] = UnregisterCar(c1, car_id)],
                         rs.out \o <<Msg(c, "write", os, FALSE),
                                     Msg(c, "write", OdPacket(c.id, car_id), FALSE)>>,
                         "ok")

\* the messages of a loop that writes the packet to every client whose id is
\* not skip (skip = None: to every client)
WriteToAll(cl, skip, data) == BroadcastTo(cl, skip, data, "write")

VehicleData(rs, data, checks) ==
    LET client_id == SubU8(data[4], Digit0, checks)
        car_id == SubU8(data[6], Digit0, checks)
    IN  IF client_id = -1 \/ car_id = -1 \/ Len(data) < 7 THEN [rs EXCEPT !.status = "panic"]
        ELSE [rs EXCEPT !.out = @ \o WriteToAll(rs.cl, client_id, data)]

VehicleDelete(rs, data) ==
    LET parts == SplitN(data, 3, {Colon, Dash})
    IN  IF Len(parts) < 2 THEN [rs EXCEPT !.status = "panic"]           \* split_data[1]
        ELSE IF ParseU8(parts[2]) = -1 THEN [rs EXCEPT !.status = "err"]
        ELSE IF Len(parts) < 3 THEN [rs EXCEPT !.status = "panic"]      \* split_data[2]
        ELSE IF ParseU8(parts[3]) = -1 THEN [rs EXCEPT !.status = "err"]
        ELSE LET client_id == ParseU8(parts[2])
                 car_id == ParseU8(parts[3])
             IN  Rs([k \in 1..Len(rs.cl) |->
                        IF rs.cl[k].id = client_id
                        THEN UnregisterCar(rs.cl[k], car_id) ELSE rs.cl[k]],
                    rs.out \o WriteToAll(rs.cl, None, data),
                    "ok")

ResetForRespawn(car) ==
    [car EXCEPT !.next_checkpoint = 0,
                !.lap_start = IF server_state = Qualifying THEN None ELSE @,
                !.offtrack_start = IF server_state = Qualifying THEN None ELSE @]

VehicleRespawn(rs, idx, data, checks) ==
    LET sender == rs.cl[idx]
        peers == Broadcast(rs.cl, sender.id, data)
    IN  IF ~force_respawn_pits THEN [rs EXCEPT !.out = @ \o peers]
        ELSE
        LET client_id == SubU8(data[4], Digit0, checks)
            car_id == SubU8(data[6], Digit0, checks)
            json == SubSeq(data, 8, Len(data))
        IN  IF client_id = -1 \/ car_id = -1 \/ Len(data) < 7 THEN [rs EXCEPT !.status = "panic"]
            ELSE IF ~JsonOk(json) THEN [rs EXCEPT !.status = "err"]
            ELSE LET cl1 == [k \in 1..Len(rs.cl) |->
                                IF rs.cl[k].id = client_id
                                     /\ HasCar(rs.cl[k], car_id)
                                THEN PutCar(rs.cl[k], car_id,
                                            ResetForRespawn(GetCar(rs.cl[k], car_id)))
                                ELSE rs.cl[k]]
                     \* distance3d(spawn.pos, data.pos) > 1.0: position 0 is the pit spawn
                     far == JsonPos(json) # 0
                     snap == IF server_state \notin {LiningUp, Countdown} /\ far
                             THEN <<Msg(sender, "event", EventRespawn, FALSE)>> ELSE <<>>
                 IN  Rs(cl1, rs.out \o snap \o Broadcast(cl1, sender.id, data), "ok")

ParseVehiclePacket(rs, idx, data, checks) ==
    IF Len(data) < 6 THEN rs
    ELSE LET code == data[2] IN
         IF code = 115 THEN VehicleSpawn(rs, idx, data)                  \* 's'
         ELSE IF code = 99 THEN VehicleData(rs, data, checks)            \* 'c'
         ELSE IF code = 100 THEN VehicleDelete(rs, data)                 \* 'd'
         ELSE IF code = 114 THEN VehicleRespawn(rs, idx, data, checks)   \* 'r'
         ELSE IF code = 116                                              \* 't'
              THEN [rs EXCEPT !.out = @ \o Broadcast(rs.cl, rs.cl[idx].id, data)]
         ELSE IF code = 109                                              \* 'm'
              THEN [rs EXCEPT !.out = @ \o Broadcast(rs.cl, None, data)]
         ELSE rs

(***************************************************************************)
(* TCP routing: Server::parse_packet                                       *)
(***************************************************************************)
CmdReady == <<33, 114, 101, 97, 100, 121>>
CmdPos == <<33, 112, 111, 115>>
SetSizeName == <<83, 101, 116, 83, 105, 122, 101>>

\* a chat arm that passes every chat packet on, commands included
ParseChatPassesCommands(rs, idx, data) ==
    [rs EXCEPT !.out = @ \o Broadcast(rs.cl, None, data)]

\* the 'C' arm
ParseChat(rs, idx, data) ==
    LET parts == Split(data, {Colon})
        message == Trim(IF Len(parts) >= 3 THEN parts[3] ELSE <<>>)
        c == rs.cl[idx]
    IN  IF message # <<>> /\ Head(message) = 33                          \* '!'
        THEN IF message = CmdReady
             THEN Rs([rs.cl EXCEPT ![idx].ready = TRUE],
                     Append(rs.out, Msg(c, "queue", ReadyReply, FALSE)), "ok")
             ELSE IF message = CmdPos
             THEN IF c.cars = <<>> THEN [rs EXCEPT !.status = "err"]    \* CarDoesntExist
                  ELSE rs
             ELSE [rs EXCEPT !.out = Append(@, Msg(c, "queue", UnknownReply, FALSE))]
        ELSE [rs EXCEPT !.out = @ \o Broadcast(rs.cl, None, data)]

\* the 'E' arm: only SetSize is known; the hitbox it stores is a constant
ParseEvent(rs, data) ==
    LET parts == Split(data, {Colon})
    IN  IF Len(parts) < 3 \/ parts[2] # SetSizeName THEN rs
        ELSE LET f == Split(parts[3], {Semi})
             IN  IF ParseU8(f[1]) = -1 THEN [rs EXCEPT !.status = "err"]
                 ELSE IF \E k \in 2..4 : Len(f) < k \/ ~ParseF32Ok(f[k])
                      THEN [rs EXCEPT !.status = "err"]
                 ELSE rs

\* parse_packet(client_idx, packet); idx is 1-based here
ParsePacket(rs, idx, raw, checks) ==
    IF Len(raw) = 0 THEN rs
    ELSE
    LET c == rs.cl[idx]
    IN  IF IsCompressed(raw) /\ ~DecompressOk(SubSeq(raw, 5, Len(raw)))
        THEN [rs EXCEPT !.status = "err"]
        ELSE
        LET data == IF IsCompressed(raw) THEN Decompress(SubSeq(raw, 5, Len(raw))) ELSE raw
        IN  IF data = <<>> THEN [rs EXCEPT !.status = "panic"]          \* packet.data[0]
            ELSE IF data[1] >= 86 /\ data[1] <= 89
                 THEN [rs EXCEPT !.out = @ \o Broadcast(rs.cl, c.id, data)]
            ELSE IF data[1] = 72                                         \* 'H'
                 THEN [rs EXCEPT !.out = Append(@, Msg(c, "queue", SnPacket(c), FALSE))]
            ELSE IF data[1] = 79                                         \* 'O'
                 THEN ParseVehiclePacket(rs, idx, data, checks)
            ELSE IF data[1] = 67                                         \* 'C'
                 THEN ParseChat(rs, idx, data)
            ELSE IF data[1] = 69                                         \* 'E'
                 THEN ParseEvent(rs, data)
            ELSE rs

\* for (i, packet) in packets { self.parse_packet(i, packet).await? }
\* packets: sequence of <<idx, data>>
RECURSIVE RoutePackets(_, _, _)
RoutePackets(rs, packets, checks) ==
    IF packets = <<>> \/ rs.status # "ok" THEN rs
    ELSE RoutePackets(ParsePacket(rs, Head(packets)[1], Head(packets)[2], checks),
                      Tail(packets), checks)

\* Welcome notifications queued to one client for the names that joined
RECURSIVE Welcomes(_, _)
Welcomes(c, names) ==
    IF names = <<>> THEN <<>>
    ELSE <<Msg(c, "queue", WelcomePacket(Head(names)), TRUE)>> \o Welcomes(c, Tail(names))

\* the loop over the clients that reads one frame from each: reads[k] is what
\* Client::process returned for client k
RECURSIVE ReadClients(_, _, _, _)
ReadClients(k, rs, reads, names) ==
    IF k > Len(rs.cl) THEN rs
    ELSE LET c == rs.cl[k]
             c1 == IF reads[k].kind = "err" THEN Kick(c) ELSE c
             kicked == IF reads[k].kind = "err" THEN <<KickMsg(c, KickIoError)>> ELSE <<>>
         IN  ReadClients(k + 1,
                         Rs([rs.cl EXCEPT ![k] = c1],
                            rs.out \o kicked \o Welcomes(c1, names), "ok"),
                         reads, names)

RECURSIVE PacketsOf(_, _)
PacketsOf(k, reads) ==
    IF k > Len(reads) THEN <<>>
    ELSE (IF reads[k].kind = "packet" THEN << <<k, reads[k].data>> >> ELSE <<>>)
         \o PacketsOf(k + 1, reads)

RouteTcp(cl, reads, names, checks) ==
    RoutePackets(ReadClients(1, Rs(cl, <<>>, "ok"), reads, names),
                 PacketsOf(1, reads), checks)

(***************************************************************************)
(* process(): removal of the clients in Disconnect                         *)
(***************************************************************************)
\* a removal that announces the first car of the client only
OdForFirstCar(cl, c, k) ==
    IF c.cars = <<>> THEN <<>> ELSE Broadcast(cl, None, OdPacket(c.id, c.cars[1].id))

RECURSIVE OdForCars(_, _, _)
\* the Od broadcasts for the cars of client c, from car k on
OdForCars(cl, c, k) ==
    IF k > Len(c.cars) THEN <<>>
    ELSE Broadcast(cl, None, OdPacket(c.id, c.cars[k].id)) \o OdForCars(cl, c, k + 1)

\* for i in 0..n { if clients.get(i)?.state == Disconnect { ...; clients.remove(i) } }
\* with n the length before the loop; get(i) past the end returns the error
RECURSIVE RemoveLoop(_, _, _)
RemoveLoop(i, n, rs) ==
    IF i >= n THEN rs
    ELSE IF i >= Len(rs.cl) THEN [rs EXCEPT !.status = "err"]           \* ClientDoesntExist
    ELSE LET c == rs.cl[i + 1] IN
         IF c.state = Disconnect
         THEN RemoveLoop(i + 1, n,
                         Rs(RemoveAt(rs.cl, i), rs.out \o OdForCars(rs.cl, c, 1), "ok"))
         ELSE RemoveLoop(i + 1, n, rs)

RemoveDisconnected(cl) == RemoveLoop(0, Len(cl), Rs(cl, <<>>, "ok"))

(***************************************************************************)
(* process(): track limits (Qualifying and Race), for the client that      *)
(* track_limits_client points at                                           *)
(***************************************************************************)
\* TrackLimits::check_limits on an optional limits file: <<>> is no file,
\* << region >> a file whose triangles cover the positions of region
CheckLimits(limits, pos) == limits # <<>> /\ pos \in limits[1]

\* one car's pass through the track-limits block
TrackLimitsCar(car) ==
    IF cfg.track_limits = <<>> THEN car
    ELSE IF CheckLimits(cfg.track_limits, car.pos)
    THEN [car EXCEPT !.offtrack_start = None]
    ELSE LET intersects_pit == CheckLimits(cfg.track_limits_pit, car.pos)
         IN  IF car.offtrack_start = None /\ intersects_pit
             THEN [car EXCEPT !.offtrack_start = 0]
             ELSE car

\* the cars of c that come back inside the limits with an off-track timer set
Returning(c) ==
    { j \in 1..Len(c.cars) :
        /\ CheckLimits(cfg.track_limits, c.cars[j].pos)
        /\ c.cars[j].offtrack_start # None }

TrackLimits(cl, idx) ==
    IF idx >= Len(cl) THEN cl                            \* clients.get_mut(..) is None
    ELSE [cl EXCEPT ![idx + 1] =
            [@ EXCEPT !.incidents = @ + Cardinality(Returning(cl[idx + 1])),
                      !.cars = [j \in 1..Len(@) |-> TrackLimitsCar(@[j])]]]

(***************************************************************************)
(* process(): checkpoints (Qualifying and Race)                            *)
(***************************************************************************)
\* stands for usize::MAX, the count a wrapping laps - 1 leaves at laps = 0
UsizeMax == 2147483647

\* Car.latest_vel_angle_to_track: set by Car::new, assigned nowhere else
LatestVelAngle(car) == car.latest_vel_angle_to_track

InCheckpoint(car) == car.pos \in cfg.checkpoints[car.next_checkpoint + 1]

\* a checkpoint block without the intersects_cp test: a car inside the region
\* is counted at every tick
CheckpointCarEveryTick(car, checks) ==
    LET n == Len(cfg.checkpoints) IN
    IF car.next_checkpoint >= n THEN car
    ELSE IF ~InCheckpoint(car) THEN [car EXCEPT !.intersects_cp = FALSE]
    ELSE IF car.next_checkpoint = 0
         THEN [car EXCEPT !.active_checkpoint = n - 1,
                          !.lap_times = IF car.lap_start # None
                                        THEN Append(@, car.lap_start) ELSE @,
                          !.laps = @ + 1,
                          !.lap_start = 0,
                          !.next_checkpoint = 1,
                          !.intersects_cp = TRUE]
         ELSE [car EXCEPT !.active_checkpoint = car.next_checkpoint,
                          !.next_checkpoint = IF @ + 1 = n THEN 0 ELSE @ + 1,
                          !.intersects_cp = TRUE]

\* one car's pass through the checkpoint block; laps = -1 stands for the panic
\* of the usize subtraction under overflow checks
CheckpointCar(car, checks) ==
    LET n == Len(cfg.checkpoints) IN
    IF car.next_checkpoint >= n THEN car                 \* track_checkpoints.get(..) is None
    ELSE IF ~InCheckpoint(car) THEN [car EXCEPT !.intersects_cp = FALSE]
    ELSE IF car.intersects_cp THEN car
    ELSE IF car.next_checkpoint = 0
         THEN IF LatestVelAngle(car) > 135
              THEN [car EXCEPT !.active_checkpoint = n - 1,
                               !.laps = IF @ > 0 THEN @ - 1
                                        ELSE IF checks THEN -1 ELSE UsizeMax,
                               !.lap_start = None,
                               !.intersects_cp = TRUE]
              ELSE [car EXCEPT !.active_checkpoint = n - 1,
                               !.lap_times = IF car.lap_start # None
                                             THEN Append(@, car.lap_start) ELSE @,
                               !.laps = @ + 1,
                               !.lap_start = 0,
                               !.next_checkpoint = 1,
                               !.intersects_cp = TRUE]
         ELSE [car EXCEPT !.active_checkpoint = car.next_checkpoint,
                          !.next_checkpoint = IF @ + 1 = n THEN 0 ELSE @ + 1,
                          !.intersects_cp = TRUE]

CheckpointClient(c, checks) ==
    [c EXCEPT !.cars = [k \in 1..Len(c.cars) |-> CheckpointCar(c.cars[k], checks)]]

Checkpoints(sv, checks) ==
    IF sv.st \notin {Qualifying, Race} THEN sv
    ELSE LET cl1 == [k \in 1..Len(sv.cl) |-> CheckpointClient(sv.cl[k], checks)]
         IN  IF \E k \in 1..Len(cl1) : \E j \in 1..Len(cl1[k].cars) : cl1[k].cars[j].laps < 0
             THEN [sv EXCEPT !.status = "panic"]
             ELSE [sv EXCEPT !.cl = cl1]

(***************************************************************************)
(* process(): whitelist check                                              *)
(***************************************************************************)
Allowed(c) ==
    \E k \in 1..Len(cfg.expected_clients) : Trim(c.name) = Trim(cfg.expected_clients[k])

RECURSIVE KickMsgs(_, _, _, _)
\* the kick packets written to the clients of cl at the indices in bad,
\* from index k on
KickMsgs(cl, bad, text, k) ==
    IF k > Len(cl) THEN <<>>
    ELSE (IF k \in bad THEN <<KickMsg(cl[k], text)>> ELSE <<>>)
         \o KickMsgs(cl, bad, text, k + 1)

\* the clients at the indices in bad are kicked
KickWhere(cl, bad) == [k \in 1..Len(cl) |-> IF k \in bad THEN Kick(cl[k]) ELSE cl[k]]

\* let mut kick: the indices of the clients that are not allowed
NotAllowed(cl) == {k \in 1..Len(cl) : ~Allowed(cl[k])}

Whitelist(sv) ==
    [sv EXCEPT !.cl = KickWhere(sv.cl, NotAllowed(sv.cl)),
               !.out = @ \o KickMsgs(sv.cl, NotAllowed(sv.cl), KickNotWhitelisted, 1)]

(***************************************************************************)
(* process(): the state machine                                            *)
(***************************************************************************)
FastestNone == 2147483647       \* stands for u128::MAX: above every lap time

\* ServerState as u8
StateId(state) ==
    CASE state = Unknown -> 0
      [] state = WaitingForClients -> 1
      [] state = WaitingForReady -> 2
      [] state = WaitingForSpawns -> 3
      [] state = Qualifying -> 4
      [] state = LiningUp -> 5
      [] state = Countdown -> 6
      [] state = Race -> 7
      [] state = Finish -> 8

\* Overlay::set_state, Overlay::set_countdown: what they write
StatePacket(state) == <<83>> \o Dec(StateId(state))
CountdownPacket(n) == <<67>> \o Dec(n)

\* for client in &mut clients { if let Some(overlay) = &mut client.overlay { write } }
OverlayWrites(cl, data) ==
    LET with == SelectSeq(cl, LAMBDA c : c.overlay # None)
    IN  [k \in 1..Len(with) |-> Msg(with[k], "overlay", data, FALSE)]

\* a phase change that tells no overlay
SetServerStateQuietly(sv, state) == [sv EXCEPT !.st = state, !.se = 0]

\* Server::set_server_state(state).await
SetServerState(sv, state) ==
    [sv EXCEPT !.st = state, !.se = 0,
               !.out = @ \o OverlayWrites(sv.cl, StatePacket(state))]

\* Server::set_server_state(state) without .await: the future is built and
\* dropped, its body never runs
SetServerStateNotAwaited(sv, state) == sv

ClearReady(cl) == [k \in 1..Len(cl) |-> [cl[k] EXCEPT !.ready = FALSE]]

AllJoined(cl) ==
    \A k \in 1..Len(cfg.expected_clients) :
        \E j \in 1..Len(cl) : Trim(cl[j].name) = Trim(cfg.expected_clients[k])

StepWaitingForClients(sv) ==
    IF AsSecs(sv.se) < WaitClientsSecs
    THEN IF AllJoined(sv.cl) THEN SetServerStateNotAwaited(sv, WaitingForReady) ELSE sv
    ELSE SetServerState([sv EXCEPT !.alive = FALSE], WaitingForReady)

\* a WaitingForReady step that leaves the ready flags as they are
StepWaitingForReadyKeepsFlags(sv) ==
    IF \A k \in 1..Len(sv.cl) : sv.cl[k].ready
    THEN [SetServerState(sv, WaitingForSpawns) EXCEPT !.as = TRUE, !.alive = FALSE]
    ELSE sv

StepWaitingForReady(sv) ==
    IF \A k \in 1..Len(sv.cl) : sv.cl[k].ready
    THEN [SetServerState(sv, WaitingForSpawns) EXCEPT
              !.as = TRUE, !.alive = FALSE, !.cl = ClearReady(sv.cl)]
    ELSE sv

\* the pit-lane spawn file of the map: a spawn is one coordinate here
TrackSpawnsPit == [ extrapolate |-> TRUE, spawns |-> <<3, 5>> ]

\* Spawns::get_client_spawn
GetClientSpawn(sp, grid_id) ==
    IF grid_id < Len(sp.spawns) THEN sp.spawns[grid_id + 1]
    ELSE IF sp.extrapolate /\ Len(sp.spawns) > 1
         THEN sp.spawns[1] + (sp.spawns[2] - sp.spawns[1]) * grid_id      \* lerp
         ELSE 0                                                           \* Spawn::default()

SpawnData(spawn) == Dec(spawn)

RECURSIVE CarOwners(_)
\* the owner of each car, in the order of the clients and of their cars
CarOwners(cl) ==
    IF cl = <<>> THEN <<>>
    ELSE [k \in 1..Len(Head(cl).cars) |-> Head(cl)] \o CarOwners(Tail(cl))

\* one Respawn event per car; the slot counter i is a u8
RespawnEvents(cl) ==
    LET ow == CarOwners(cl) IN
    [k \in 1..Len(ow) |->
        Msg(ow[k], "event",
            EventRespawn \o SpawnData(GetClientSpawn(TrackSpawnsPit, (k - 1) % U8Mod)),
            FALSE)]

\* `i += 1` after the car that was given slot 255
RespawnOverflows(cl) == Len(CarOwners(cl)) >= U8Mod

\* a WaitingForSpawns arm that leaves the spawn permission as it is
StepWaitingForSpawnsKeepsSpawns(sv, checks) ==
    IF \A k \in 1..Len(sv.cl) : Len(sv.cl[k].cars) > 0
    THEN IF checks /\ RespawnOverflows(sv.cl)
         THEN [sv EXCEPT !.status = "panic"]
         ELSE [SetServerState(sv, Qualifying) EXCEPT
                  !.fr = TRUE, !.out = @ \o RespawnEvents(sv.cl)]
    ELSE sv

StepWaitingForSpawns(sv, checks) ==
    IF \A k \in 1..Len(sv.cl) : Len(sv.cl[k].cars) > 0
    THEN IF checks /\ RespawnOverflows(sv.cl)
         THEN [sv EXCEPT !.status = "panic"]
         ELSE [SetServerState(sv, Qualifying) EXCEPT
                  !.as = FALSE, !.fr = TRUE, !.out = @ \o RespawnEvents(sv.cl)]
    ELSE sv

MinOf(S) == CHOOSE x \in S : \A y \in S : x <= y

\* the fastest lap over all cars of a client
FastestLap(c) ==
    LET times == UNION {SeqToSet(c.cars[k].lap_times) : k \in 1..Len(c.cars)}
    IN  IF times = {} THEN FastestNone ELSE MinOf(times)

\* a sort that puts the slowest client first
SortedOrdersDescending(cl) ==
    LET n == Len(cl) IN
    { p \in [1..n -> 1..n] :
        /\ \A i, j \in 1..n : i # j => p[i] # p[j]
        /\ \A i \in 1..(n - 1) : FastestLap(cl[p[i]]) >= FastestLap(cl[p[i + 1]]) }

\* sort_unstable_by on the lap time: every order of the client indices that
\* is ascending in the fastest lap (equal times may come out in any order)
SortedOrders(cl) ==
    LET n == Len(cl) IN
    { p \in [1..n -> 1..n] :
        /\ \A i, j \in 1..n : i # j => p[i] # p[j]
        /\ \A i \in 1..(n - 1) : FastestLap(cl[p[i]]) <= FastestLap(cl[p[i + 1]]) }

\* a reset that leaves the lap clock and the off-track timer running
ResetCarKeepsTimers(car) ==
    [car EXCEPT !.laps = 0, !.lap_times = <<>>, !.next_checkpoint = 0]

ResetCar(car) ==
    [car EXCEPT !.laps = 0, !.lap_times = <<>>, !.next_checkpoint = 0, !.lap_start = None,
                !.offtrack_start = None]

QualTime == IF cfg.qual_time = None THEN DefaultQualTime ELSE cfg.qual_time

QualifyingOver(sv) == sv.st = Qualifying /\ AsSecs(sv.se) > QualTime

\* a Qualifying arm that leaves for Countdown, past LiningUp
StepQualifyingToCountdown(sv, order) ==
    IF ~QualifyingOver(sv) THEN sv
    ELSE LET spot(k) == CHOOSE j \in 1..Len(order) : order[j] = k
             cl1 == [k \in 1..Len(sv.cl) |->
                        [sv.cl[k] EXCEPT
                            !.grid_spot = spot(k),
                            !.ready = FALSE,
                            !.cars = [c \in 1..Len(sv.cl[k].cars) |-> ResetCar(sv.cl[k].cars[c])]]]
         IN  [SetServerState(sv, Countdown) EXCEPT
                  !.ar = FALSE, !.as = FALSE, !.fr = FALSE, !.t0 = 0, !.cl = cl1]

\* order[j] is the client that comes j-th in the sorted lap_id
StepQualifying(sv, order) ==
    IF ~QualifyingOver(sv) THEN sv
    ELSE LET spot(k) == CHOOSE j \in 1..Len(order) : order[j] = k
             cl1 == [k \in 1..Len(sv.cl) |->
                        [sv.cl[k] EXCEPT
                            !.grid_spot = spot(k),
                            !.ready = FALSE,
                            !.cars = [c \in 1..Len(sv.cl[k].cars) |-> ResetCar(sv.cl[k].cars[c])]]]
         IN  [SetServerState(sv, LiningUp) EXCEPT
                  !.ar = FALSE, !.as = FALSE, !.fr = FALSE, !.t0 = 0, !.cl = cl1]

\* the grid slot lookup of a client: an even grid spot gs reads slot
\* (gs / 2) as u8 - 1, which overflows when gs / 2 is 0
GridLookupOverflows(c) == c.grid_spot % 2 = 0 /\ (c.grid_spot \div 2) % U8Mod = 0

\* deltaxy > 1.0 || deltaz > 3.0: the grid slots lie at position 0
OffGrid(c) == c.cars # <<>> /\ c.cars[1].pos # 0

NotReady(cl) == {k \in 1..Len(cl) : ~cl[k].ready}

StepLiningUp(sv, checks) ==
    LET second == AsSecs(sv.t0) > 0
        all_ready == \A k \in 1..Len(sv.cl) : sv.cl[k].ready
        sv1 == IF ~second THEN sv
               ELSE LET a == [sv EXCEPT !.t0 = 0,
                                 !.out = @ \o [k \in 1..Len(SelectSeq(sv.cl, OffGrid)) |->
                                     Msg(SelectSeq(sv.cl, OffGrid)[k], "event", EventRespawn, FALSE)]]
                    IN  IF all_ready THEN [SetServerState(a, Countdown) EXCEPT !.t0 = 0] ELSE a
    IN  IF second /\ checks /\ \E k \in 1..Len(sv.cl) : GridLookupOverflows(sv.cl[k])
        THEN [sv EXCEPT !.status = "panic"]
        ELSE IF AsSecs(sv1.se) > LineupTimeoutSecs
        THEN [SetServerState(sv1, Countdown) EXCEPT
                  !.t0 = 0,
                  !.cl = KickWhere(sv1.cl, NotReady(sv1.cl)),
                  !.out = @ \o KickMsgs(sv1.cl, NotReady(sv1.cl), KickNotReady, 1)]
        ELSE sv1

\* a countdown that does not wait between its steps
StepCountdownNoWait(sv) ==
    IF sv.cd > 0
    THEN [sv EXCEPT !.cd = @ - 1, !.t0 = 0,
                    !.out = @ \o OverlayWrites(sv.cl, CountdownPacket(sv.cd - 1))]
    ELSE [SetServerState(sv, Race) EXCEPT !.fr = TRUE]

StepCountdown(sv) ==
    LET sv1 == IF sv.t0 > CountdownStepMs /\ sv.cd > 0
               THEN [sv EXCEPT !.cd = @ - 1, !.t0 = 0,
                               !.out = @ \o OverlayWrites(sv.cl, CountdownPacket(sv.cd - 1))]
               ELSE sv
    IN  IF sv1.cd = 0 /\ sv1.t0 > CountdownStepMs
        THEN [SetServerState(sv1, Race) EXCEPT !.fr = TRUE]
        ELSE sv1

MaxLaps == IF cfg.max_laps = None THEN DefaultMaxLaps ELSE cfg.max_laps

RECURSIVE FinishLoop(_, _)
\* the loop over the clients that marks the finished ones, from client i on
FinishLoop(i, sv) ==
    IF i > Len(sv.cl) THEN sv
    ELSE LET c == sv.cl[i] IN
         IF c.cars = <<>> THEN [sv EXCEPT !.status = "panic"]           \* cars[0]
         ELSE IF c.cars[1].laps > MaxLaps /\ ~c.finished
              THEN FinishLoop(i + 1, [sv EXCEPT !.cl[i].finished = TRUE,
                                                !.fo = Append(@, i - 1)])
              ELSE FinishLoop(i + 1, sv)

StepRace(sv) ==
    LET sv1 == IF sv.t0 > RaceUpdateMs THEN [sv EXCEPT !.t0 = 0] ELSE sv
        sv2 == FinishLoop(1, sv1)
    IN  IF sv2.status # "ok" THEN sv2
        ELSE IF \A k \in 1..Len(sv2.cl) : sv2.cl[k].finished
             THEN [SetServerStateNotAwaited(sv2, Finish) EXCEPT !.t0 = 0]
             ELSE sv2

StepFinish(sv) ==
    IF AsSecs(sv.t0) > FinishExitSecs THEN [sv EXCEPT !.status = "exit"] ELSE sv

StateMachine(sv, order, checks) ==
    CASE sv.st = WaitingForClients -> StepWaitingForClients(sv)
      [] sv.st = WaitingForReady -> StepWaitingForReady(sv)
      [] sv.st = WaitingForSpawns -> StepWaitingForSpawns(sv, checks)
      [] sv.st = Qualifying -> StepQualifying(sv, order)
      [] sv.st = LiningUp -> StepLiningUp(sv, checks)
      [] sv.st = Countdown -> StepCountdown(sv)
      [] sv.st = Race -> StepRace(sv)
      [] sv.st = Finish -> StepFinish(sv)
      [] OTHER -> [sv EXCEPT !.status = "panic"]                         \* todo!()

(***************************************************************************)
(* Inputs from the network                                                 *)
(***************************************************************************)
Addrs == {1}

\* datagram payloads; the first byte is the sender's client id + 1, the
\* second a separator, the packet follows
UdpPayloads ==
    { <<1, 58>> \o <<112>>,                      \* keepalive of client 0
      <<1, 58>> \o <<90, 112, 58, 48, 45, 48, 58, 123, 48, 125>>,             \* client 0 moves its car 0
      <<1, 58>> \o <<90, 112, 58, 48, 45, 48, 58, 123, 49, 125>>,
      <<2, 58>> \o <<90, 112, 58, 49, 45, 48, 58, 123, 48, 125>>,             \* client 1 moves its car 0
      <<2, 58>> \o <<90, 112, 58, 49, 45, 48, 58, 123, 49, 125>>,
      <<1, 58>> \o <<90, 112, 58, 49, 45, 48, 58, 123, 49, 125>>,             \* client 0 moves car 0 of client 1
      <<1, 58>> \o <<86>>,                      \* pass-through
      <<1>>,                                 \* one byte
      <<0, 58>> \o <<112>>,                      \* id byte 0
      <<1, 58>>,                             \* empty packet
      <<1, 58>> \o <<90>>,                      \* truncated Z
      <<1, 58>> \o <<90, 112, 58, 48, 45, 48, 58, 120>>,               \* Z, not JSON
      <<1, 58>> \o <<90, 112, 58, 46, 45, 48, 58, 123, 49, 125>>,             \* Z, client field not a digit
      <<1, 58>> \o <<65, 66, 71, 58>> \o <<120>>,        \* compressed empty packet
      <<1, 58>> \o <<65, 66, 71, 58, 120>> }                 \* not a zlib stream

TcpFrames ==
    { <<67, 58, 97, 58, 33, 114, 101, 97, 100, 121>>, <<67, 58, 97, 58, 104, 105>>, <<67, 58, 97, 58, 33, 120>>, <<67, 58, 97, 58, 33, 112, 111, 115>>, <<72>>, <<86>>,
      <<79, 115, 58, 48, 58, 123, 125>>, <<79, 115, 120, 120, 120, 120>>,
      <<79, 100, 58, 48, 45, 48>>, <<79, 100, 58, 120, 45, 48>>, <<79, 100, 120, 120, 120, 120>>, <<79, 100, 58, 48, 58, 120, 120>>,
      <<79, 99, 58, 48, 45, 48, 58, 123, 125>>, <<79, 99, 58, 48, 45, 48>>, <<79, 99, 58, 46, 45, 48, 58, 123, 125>>,
      <<79, 114, 58, 48, 45, 48, 58, 123, 49, 125>>, <<79, 114, 58, 48, 45, 48>>, <<79, 116, 58, 48, 45, 48>>, <<79, 109, 58, 48, 45, 48>>,
      <<69, 58, 83, 101, 116, 83, 105, 122, 101, 58, 48, 59, 49, 59, 49, 59, 49>>, <<69, 58, 83, 101, 116, 83, 105, 122, 101, 58, 120, 59, 49, 59, 49, 59, 49>>, <<69, 58, 83, 101, 116, 83, 105, 122, 101, 58, 48, 59, 49>>,
      <<65, 66, 71, 58, 120>>, <<65, 66, 71, 58>> \o <<120>>, <<>> }

\* what Client::process returns: no frame, an I/O error, or one frame
NoRead == [kind |-> "none", data |-> <<>>]
ReadError == [kind |-> "err", data |-> <<>>]
TcpReads == {NoRead, ReadError} \cup { [kind |-> "packet", data |-> d] : d \in TcpFrames }

\* what arrives during one tick: the datagrams read_udp_packets returns and
\* what Client::process returns for each client.  One tick carries at most
\* one datagram, or one frame or I/O error of one client.
TickInputs(n) ==
    { [udp |-> <<>>, reads |-> [k \in 1..n |-> NoRead]] }
    \cup { [udp |-> << [addr |-> a, data |-> d] >>, reads |-> [k \in 1..n |-> NoRead]] :
             a \in Addrs, d \in UdpPayloads }
    \cup { [udp |-> <<>>, reads |-> [k \in 1..n |-> IF k = j THEN r ELSE NoRead]] :
             j \in 1..n, r \in TcpReads \ {NoRead} }

(***************************************************************************)
(* Main task: the sections of Server::process                              *)
(***************************************************************************)
\* a main loop that stops at the first error process() returns
PcAfterErrorIsFatal(status, next) ==
    CASE status = "ok" -> next
      [] status = "err" -> "exited"
      [] status = "panic" -> "panicked"
      [] status = "exit" -> "exited"

\* how a section that ended with status hands over: to the next section, back
\* to server_main (which logs the error and loops), or the process is over
PcAfter(status, next) ==
    CASE status = "ok" -> next
      [] status = "err" -> "drain"
      [] status = "panic" -> "panicked"
      [] status = "exit" -> "exited"

\* what server_main sees process() return, if the section ends the call
ResultAfter(status, last) ==
    CASE status = "err" -> "err"
      [] status = "ok" /\ last -> "ok"
      [] OTHER -> "none"

\* UDP routing, then the TCP reads and TCP routing
RouteAll(cl, in, names, checks) ==
    LET u == RouteUdp(Rs(cl, <<>>, "ok"), in.udp, checks)
    IN  IF u.status # "ok" THEN u
        ELSE LET t == RouteTcp(u.cl, in.reads, names, checks)
             IN  [t EXCEPT !.out = u.out \o @]

\* an operation whose outcome depends on the build profile: with overflow
\* checks an integer overflow panics, without them it wraps
Builds(checked, wrapping) ==
    IF checked.status = "panic" THEN {checked, wrapping} ELSE {checked}

RouteOn(inputs) ==
    /\ pc = "route"
    /\ \E in \in inputs :
       \E rs \in Builds(RouteAll(clients, in, joined_names, TRUE),
                         RouteAll(clients, in, joined_names, FALSE)) :
          /\ clients' = IF rs.status = "panic" THEN clients ELSE rs.cl
          /\ pc' = PcAfter(rs.status, "remove")
          /\ result' = ResultAfter(rs.status, FALSE)
    /\ joined_names' = <<>>
    /\ UNCHANGED <<cfg, clients_incoming, acc_pending, accept_alive, next_id,
                   server_state, state_elapsed, timer0, countdown, allow_spawns,
                   force_respawn_pits, allow_respawns, finish_order,
                   overlay_incoming, unconnected_overlays>>

Route == RouteOn(TickInputs(Len(clients)))

Remove ==
    /\ pc = "remove"
    /\ LET rs == RemoveDisconnected(clients)
       IN  /\ clients' = rs.cl
           /\ pc' = PcAfter(rs.status, "advance")
           /\ result' = ResultAfter(rs.status, FALSE)
    /\ UNCHANGED <<cfg, clients_incoming, acc_pending, accept_alive, next_id,
                   server_state, state_elapsed, timer0, countdown, allow_spawns,
                   force_respawn_pits, allow_respawns, finish_order, joined_names,
                   overlay_incoming, unconnected_overlays>>

\* the server fields the rest of process() works on
Sv == [ cl |-> clients, out |-> <<>>, st |-> server_state, se |-> state_elapsed,
        t0 |-> timer0, cd |-> countdown, as |-> allow_spawns,
        fr |-> force_respawn_pits, ar |-> allow_respawns, fo |-> finish_order,
        alive |-> accept_alive, status |-> "ok" ]

\* checkpoints, whitelist check, state machine
AdvanceFrom(sv, order, checks) ==
    LET sv1 == Checkpoints(sv, checks)
    IN  IF sv1.status # "ok" THEN sv1 ELSE StateMachine(Whitelist(sv1), order, checks)

\* the orders the sort of the qualifying results can produce in this tick
Orders(sv) ==
    LET sv1 == Checkpoints(sv, FALSE)
    IN  IF QualifyingOver(sv1) THEN SortedOrders(sv1.cl) ELSE {<<>>}

LapsWithin(cl, max) ==
    \A k \in 1..Len(cl) : \A j \in 1..Len(cl[k].cars) : cl[k].cars[j].laps <= max

LapsBounded(cl) == LapsWithin(cl, MaxLapCount)

\* the values track_limits_client can hold in a tick that looks at it: the
\* counter runs through 0..255, and an index past the list finds no client
TrackLimitsClients ==
    IF cfg.track_limits = <<>> \/ server_state \notin {Qualifying, Race}
    THEN {0} ELSE 0..Len(clients)

\* the server fields after the track-limits block
SvAt(idx) ==
    IF server_state \in {Qualifying, Race}
    THEN [Sv EXCEPT !.cl = TrackLimits(clients, idx)] ELSE Sv

\* the last sections of process(): track limits, checkpoints, whitelist and
\* the state machine; lap counters are driven up to max
AdvanceUpTo(max) ==
    /\ pc = "advance"
    /\ \E idx \in TrackLimitsClients :
       \E order \in Orders(SvAt(idx)) :
       \E sv \in Builds(AdvanceFrom(SvAt(idx), order, TRUE),
                         AdvanceFrom(SvAt(idx), order, FALSE)) :
          /\ LapsWithin(sv.cl, max)
          /\ clients' = IF sv.status = "panic" THEN clients ELSE sv.cl
          /\ server_state' = sv.st
          /\ state_elapsed' = sv.se
          /\ timer0' = sv.t0
          /\ countdown' = sv.cd
          /\ allow_spawns' = sv.as
          /\ force_respawn_pits' = sv.fr
          /\ allow_respawns' = sv.ar
          /\ finish_order' = sv.fo
          /\ accept_alive' = sv.alive
          /\ pc' = PcAfter(sv.status, "drain")
          /\ result' = ResultAfter(sv.status, TRUE)
    /\ UNCHANGED <<cfg, clients_incoming, acc_pending, next_id, joined_names,
                   overlay_incoming, unconnected_overlays>>

Advance == AdvanceUpTo(MaxLapCount)

(***************************************************************************)
(* Specification                                                           *)
(***************************************************************************)
Acceptor == AcceptAuth \/ AcceptPush

Tick == Drain \/ Route \/ Remove \/ Advance

Next == Acceptor \/ Tick

Spec == Init /\ [][Next]_vars

\* the main loop of server_main never stops ticking: its select always
\* completes (it holds a sleep), and process() is called after each one
FairSpec == Spec /\ WF_vars(Tick)

\* The same server when the clients send only the traffic of an orderly
\* event (ready commands, spawns, the position updates of their cars) and
\* no connection fails.
OrderlyInputs(n) ==
    { in \in TickInputs(n) :
        /\ \A k \in 1..Len(in.udp) : in.udp[k].data \in
               { <<1, 58>> \o <<90, 112, 58, 48, 45, 48, 58, 123, 48, 125>>, <<1, 58>> \o <<90, 112, 58, 48, 45, 48, 58, 123, 49, 125>> }
        /\ \A k \in 1..n : in.reads[k].kind # "none" =>
               in.reads[k].kind = "packet" /\ in.reads[k].data \in { <<67, 58, 97, 58, 33, 114, 101, 97, 100, 121>>, <<79, 115, 58, 48, 58, 123, 125>> } }

OrderlyRoute == RouteOn(OrderlyInputs(Len(clients)))

OrderlyTick == Drain \/ OrderlyRoute \/ Remove \/ Advance

OrderlyNext == Acceptor \/ OrderlyTick

OrderlySpec == Init /\ [][OrderlyNext]_vars /\ WF_vars(OrderlyTick)

(***************************************************************************)
(* The overlay acceptor task of Server::new.  An overlay is known by the   *)
(* order its connection was accepted in; the connections that are open at  *)
(* one time are bounded by MaxOverlays.                                    *)
(***************************************************************************)
MaxOverlays == 2

\* the overlays the server holds: staged, drained and not bound, or bound
OverlaysHeld ==
    { overlay_incoming[k][2] : k \in 1..Len(overlay_incoming) }
      \cup { unconnected_overlays[k][2] : k \in 1..Len(unconnected_overlays) }
      \cup { clients[k].overlay : k \in { j \in 1..Len(clients) : clients[j].overlay # None } }
      \cup { clients_incoming[k].overlay : k \in { j \in 1..Len(clients_incoming) : clients_incoming[j].overlay # None } }

\* accept, Overlay::new reads "H<name>\0", lock, push (name, overlay), unlock
OverlayAccept ==
    /\ Cardinality(OverlaysHeld) < MaxOverlays
    /\ \E name \in Names :
          LET overlay == CHOOSE o \in 1..MaxOverlays : o \notin OverlaysHeld
          IN  overlay_incoming' = Append(overlay_incoming, <<name, overlay>>)
    /\ UNCHANGED <<pc, cfg, clients, clients_incoming, acc_pending, accept_alive,
                   next_id, result, server_state, state_elapsed, timer0, countdown,
                   allow_spawns, force_respawn_pits, allow_respawns, finish_order,
                   joined_names, unconnected_overlays>>

OverlayNext == OrderlyNext \/ OverlayAccept

OverlaySpec == Init /\ [][OverlayNext]_vars

(***************************************************************************)
(* Properties                                                              *)
(***************************************************************************)
Ids(cl) == {cl[k].id : k \in 1..Len(cl)}

IsLive(c) == c.state = Connected

Live(cl) == SelectSeq(cl, IsLive)

AllFinished(cl) == \A k \in 1..Len(cl) : cl[k].finished

\* C1: in WaitingForClients, a tick that finds every expected name among the
\* live sessions before 300 s have passed ends in WaitingForReady.
C1_AllJoinedEntersWaitingForReady ==
    [][ ( /\ pc = "advance"
          /\ server_state = WaitingForClients
          /\ AllJoined(Live(clients))
          /\ AsSecs(state_elapsed) < WaitClientsSecs
          /\ result' = "ok" )
        => server_state' = WaitingForReady ]_vars

\* C2: in Race, the tick that leaves every live client finished ends in
\* Finish; and the phase becomes Finish only when every live client is
\* finished.
C2_AllFinishedEntersFinish ==
    [][ /\ ( /\ pc = "advance"
             /\ server_state = Race
             /\ result' = "ok"
             /\ Live(clients') # <<>>
             /\ AllFinished(Live(clients')) )
           => server_state' = Finish
        /\ (server_state # Finish /\ server_state' = Finish)
           => AllFinished(Live(clients')) ]_vars

\* C3: once the server is in Race and every live client is finished, the
\* process eventually exits (a run that ends in a panic is not counted
\* against the claim).
C3_RaceEventuallyExits ==
    (server_state = Race /\ Live(clients) # <<>> /\ AllFinished(Live(clients)))
        ~> (pc \in {"exited", "panicked"})

\* C4: routing the datagrams and frames of a tick never panics.
C4_RoutingNeverPanics ==
    [][ pc = "route" => pc' # "panicked" ]_vars

\* what the routing of a tick would return for input in under a build
Routed(in, checks) == RouteAll(clients, in, joined_names, checks)

\* routing that returns an error moves no client to Disconnect, except one
\* whose own read failed in that tick
ErrorDisconnectsNobody(in, checks) ==
    LET rs == Routed(in, checks) IN
    rs.status = "err" =>
        /\ Len(rs.cl) = Len(clients)
        /\ \A k \in 1..Len(clients) :
              (rs.cl[k].state = Disconnect /\ clients[k].state # Disconnect)
                  => in.reads[k].kind = "err"

\* C5: when the routing of a packet returns an error, process() returns it,
\* the main loop is back at its wait for the next tick, and the error has
\* moved no client to Disconnect other than one whose own read failed.
C5_PacketErrorKeepsLoopAndSessions ==
    /\ [](pc = "route" =>
            \A in \in TickInputs(Len(clients)) : \A checks \in BOOLEAN :
                ErrorDisconnectsNobody(in, checks))
    /\ [][ (pc = "route" /\ result' = "err") =>
              /\ pc' = "drain"
              /\ Len(clients') = Len(clients)
              /\ \A k \in 1..Len(clients) : clients'[k].state = clients[k].state ]_vars

\* a tick ended by a packet error with two sessions in the list, both live
C5_Witness ==
    /\ pc = "drain"
    /\ result = "err"
    /\ Len(clients) = 2
    /\ \A k \in 1..Len(clients) : clients[k].state = Connected

\* C6: the removal step removes every client that is in Disconnect when it
\* starts, however many there are and wherever they are in the list, and
\* removes no other client.
C6_RemovalDropsExactlyDisconnected ==
    [][ (pc = "remove" /\ pc' # "remove") =>
          \A k \in 1..Len(clients) :
              (clients[k].state = Disconnect) <=> (clients[k].id \notin Ids(clients')) ]_vars

NoBroadcastToDisconnected(out) ==
    \A k \in 1..Len(out) : ~(out[k].bcast /\ out[k].disc)

\* C7: no step queues or writes a broadcast to a client that is in
\* Disconnect: neither the routing of any input of a tick nor the removal
\* step.
C7_NoBroadcastToDisconnected ==
    /\ pc = "route" =>
          \A in \in TickInputs(Len(clients)) : \A checks \in BOOLEAN :
              NoBroadcastToDisconnected(Routed(in, checks).out)
    /\ pc = "remove" => NoBroadcastToDisconnected(RemoveDisconnected(clients).out)

\* C8: a session whose trimmed username equals no trimmed entry of
\* expected_clients is never a member of the client list.
C8_NotWhitelistedNeverInClients ==
    \A k \in 1..Len(clients) : Allowed(clients[k])

\* C9: no two live sessions of the client list have the same username.
C9_OneLiveSessionPerUsername ==
    \A i, j \in 1..Len(clients) :
        (i # j /\ IsLive(clients[i]) /\ IsLive(clients[j]))
            => clients[i].name # clients[j].name

\* C10: once the server has left WaitingForReady, no session is added to
\* the client list.
C10_NoJoinAfterWaitingForReady ==
    [][ server_state \notin {WaitingForClients, WaitingForReady}
          => Ids(clients') \subseteq Ids(clients) ]_vars

(***************************************************************************)
(* The end of Qualifying on its own: the last section of a tick, run in    *)
(* Qualifying on client lists whose cars have recorded lap times           *)
(***************************************************************************)
MaxGrid == 3            \* the client lists of QualifyingSpec have at most this many clients

\* the lap_times a car has recorded (ms)
LapTimeLists == {<<>>, <<60000>>, <<75000>>, <<90000>>, <<90000, 60000>>}

TwoCheckpointConfig ==
    [ expected_clients |-> << <<97, 32>> >>, max_laps |-> 0, max_cars |-> 1,
      qual_time |-> None, checkpoints |-> << {1}, {2} >>,
      track_limits |-> <<>>, track_limits_pit |-> <<>> ]

\* the same track with limits files: positions 0 and 1 are on the track, 1
\* and 2 in the pit lane, 3 in neither
TrackLimitsConfig ==
    [TwoCheckpointConfig EXCEPT !.track_limits = << {0, 1} >>,
                                !.track_limits_pit = << {1, 2} >>]

\* a client whose car has driven the laps of times and is away from the
\* checkpoints
QualifiedClient(id, times) ==
    [NewClient(id, NameApad) EXCEPT
        !.ready = (times # <<>>),
        !.cars = << [NewCar(0) EXCEPT
                        !.lap_times = times,
                        !.laps = IF times = <<>> THEN 0 ELSE Len(times) + 1,
                        !.lap_start = IF times = <<>> THEN None ELSE 0,
                        !.offtrack_start = IF times = <<>> THEN 150000 ELSE None,
                        !.next_checkpoint = IF times = <<>> THEN 0 ELSE 1] >>]

QualifiedLists ==
    UNION { { [k \in 1..n |-> QualifiedClient(k - 1, t[k])] : t \in [1..n -> LapTimeLists] } :
            n \in 1..MaxGrid }

QualifyingInit ==
    /\ pc = "advance"
    /\ cfg = TrackLimitsConfig
    /\ clients \in QualifiedLists
    /\ clients_incoming = <<>>
    /\ acc_pending = <<>>
    /\ accept_alive = FALSE
    /\ next_id = Len(clients)
    /\ server_state = Qualifying
    /\ state_elapsed \in {0, DefaultQualTime * 1000, (DefaultQualTime + 1) * 1000, MaxElapsed}
    /\ timer0 = 0
    /\ countdown = InitialCountdown
    /\ allow_spawns = FALSE
    /\ force_respawn_pits = TRUE
    /\ allow_respawns = TRUE
    /\ finish_order = <<>>
    /\ joined_names = <<>>
    /\ overlay_incoming = <<>>
    /\ unconnected_overlays = <<>>
    /\ result = "none"

QualifyingSpec == QualifyingInit /\ [][Advance]_vars

GridSpots(cl) == [k \in 1..Len(cl) |-> cl[k].grid_spot]

IsPermutation(s) == {s[k] : k \in 1..Len(s)} = 1..Len(s)

\* C11: at the exit from Qualifying the grid positions of the N clients of
\* the list are a permutation of 1..N, a client with a strictly smaller
\* fastest lap gets a strictly smaller position, and fastest laps of 75 s,
\* 60 s, 90 s give the positions 2, 1, 3.
C11_GridIsSortedPermutation ==
    [][ (pc = "advance" /\ server_state = Qualifying /\ server_state' = LiningUp) =>
          LET before == Checkpoints(Sv, FALSE).cl IN
          /\ Len(clients') = Len(before)
          /\ IsPermutation(GridSpots(clients'))
          /\ \A i, j \in 1..Len(before) :
                FastestLap(before[i]) < FastestLap(before[j])
                    => clients'[i].grid_spot < clients'[j].grid_spot
          /\ [k \in 1..Len(before) |-> FastestLap(before[k])] = <<75000, 60000, 90000>>
                => GridSpots(clients') = <<2, 1, 3>> ]_vars

\* Qualifying has ended for three clients, the second the fastest and the
\* third the slowest
C11_Witness ==
    /\ server_state = LiningUp
    /\ result = "ok"
    /\ GridSpots(clients) = <<2, 1, 3>>

\* C12: from the entry into LiningUp on, the grid positions of the clients
\* of the list form a permutation of 1..|clients| (stated here for the lists
\* that hold only clients that were given a position at the end of
\* Qualifying).
C12_GridStaysPermutation ==
    ( /\ server_state \in {LiningUp, Countdown, Race, Finish}
      /\ \A k \in 1..Len(clients) : clients[k].grid_spot # 0 )
        => IsPermutation(GridSpots(clients))


NoDuplicates(s) == \A a, b \in 1..Len(s) : s[a] = s[b] => a = b

\* the ids of the clients of cl1 that are finished and were not in cl0
NewlyFinished(cl0, cl1) ==
    { cl1[k].id : k \in { j \in 1..Len(cl1) : cl1[j].finished } }
        \ { cl0[k].id : k \in { j \in 1..Len(cl0) : cl0[j].finished } }

\* C13: finish_order has no duplicates, only grows at its end, and every
\* entry a step appends is the id of a client that finished in that step.
C13_FinishOrderHoldsClientIds ==
    [][ finish_order' # finish_order =>
          /\ NoDuplicates(finish_order')
          /\ Len(finish_order') > Len(finish_order)
          /\ SubSeq(finish_order', 1, Len(finish_order)) = finish_order
          /\ \A k \in (Len(finish_order) + 1)..Len(finish_order') :
                 finish_order'[k] \in NewlyFinished(clients, clients') ]_vars

\* C14: when a checkpoint is configured, the next_checkpoint of every car of
\* every client is an index into the checkpoint list.
C14_NextCheckpointInRange ==
    Len(cfg.checkpoints) > 0 =>
        \A k \in 1..Len(clients) : \A j \in 1..Len(clients[k].cars) :
            clients[k].cars[j].next_checkpoint < Len(cfg.checkpoints)

(***************************************************************************)
(* The track-limits block on its own, at the ticks where                   *)
(* track_limits_client points at the first client of the list.             *)
(***************************************************************************)
TrackPositions == 0..3

OfftrackStarts == {None, 0, 150000}

TrackCar(id, p, off) == [NewCar(id) EXCEPT !.pos = p, !.offtrack_start = off]

TrackCarLists ==
    { << TrackCar(0, p, off) >> : p \in TrackPositions, off \in OfftrackStarts }
    \cup { << TrackCar(0, p, off), TrackCar(1, q, off2) >> :
              p \in TrackPositions, off \in OfftrackStarts,
              q \in TrackPositions, off2 \in OfftrackStarts }

TrackLimitsInit ==
    /\ pc = "advance"
    /\ cfg = TrackLimitsConfig
    /\ \E cars \in TrackCarLists, n \in 0..1 :
          clients = << [NewClient(0, NameApad) EXCEPT !.cars = cars, !.incidents = n] >>
    /\ clients_incoming = <<>>
    /\ acc_pending = <<>>
    /\ accept_alive = FALSE
    /\ next_id = 1
    /\ server_state \in {Qualifying, Race}
    /\ state_elapsed = 0
    /\ timer0 = 0
    /\ countdown = InitialCountdown
    /\ allow_spawns = TRUE
    /\ force_respawn_pits = TRUE
    /\ allow_respawns = TRUE
    /\ finish_order = <<>>
    /\ joined_names = <<>>
    /\ overlay_incoming = <<>>
    /\ unconnected_overlays = <<>>
    /\ result = "none"

TrackLimitsTick ==
    /\ pc = "advance"
    /\ server_state \in {Qualifying, Race}
    /\ clients' = TrackLimits(clients, 0)
    /\ pc' = "drain"
    /\ UNCHANGED <<cfg, clients_incoming, acc_pending, accept_alive, next_id,
                   server_state, state_elapsed, timer0, countdown, allow_spawns,
                   force_respawn_pits, allow_respawns, finish_order, joined_names,
                   result,
                   overlay_incoming, unconnected_overlays>>

TrackLimitsSpec == TrackLimitsInit /\ [][TrackLimitsTick]_vars

\* what the claim prescribes for one car: the off-track timer after the tick
PrescribedOfftrackStart(car) ==
    IF car.pos \in cfg.track_limits[1] THEN None
    ELSE IF car.pos \in cfg.track_limits_pit[1]
         THEN (IF car.offtrack_start = None THEN None ELSE car.offtrack_start)
         ELSE (IF car.offtrack_start = None THEN 0 ELSE car.offtrack_start)

\* C15: a car inside the limits has its off-track timer cleared and counts
\* one incident iff the timer was set; outside the limits and in the pit lane
\* an unset timer stays unset; outside both an unset timer is set to now and
\* a set one is kept.
C15_TrackLimitsTimerAndIncidents ==
    [][ (pc = "advance" /\ pc' = "drain") =>
          /\ clients'[1].incidents
                = clients[1].incidents + Cardinality(Returning(clients[1]))
          /\ \A j \in 1..Len(clients[1].cars) :
                clients'[1].cars[j].offtrack_start
                    = PrescribedOfftrackStart(clients[1].cars[j]) ]_vars

(***************************************************************************)
(* The checkpoint block on its own: one client with one car, on tracks of  *)
(* one, two and three checkpoints (checkpoint k is the region {k + 1}).    *)
(***************************************************************************)
MaxCheckpoints == 3

CheckpointConfigs ==
    { [TwoCheckpointConfig EXCEPT !.checkpoints = [k \in 1..n |-> {k}]] :
        n \in 1..MaxCheckpoints }

\* the cars a track of n checkpoints can hold: one that has not crossed the
\* start line yet, or one in its lap
CheckpointCars(n) ==
    { [NewCar(0) EXCEPT !.pos = p, !.intersects_cp = b] : p \in 0..n, b \in BOOLEAN }
    \cup
    { [NewCar(0) EXCEPT !.pos = p, !.intersects_cp = b, !.lap_times = t,
                        !.laps = Len(t) + 1, !.lap_start = ls,
                        !.next_checkpoint = nc,
                        !.active_checkpoint = IF nc <= 1 THEN n - 1 ELSE nc - 1] :
        p \in 0..n, b \in BOOLEAN, t \in {<<>>, <<60000>>}, ls \in {0, 150000},
        nc \in (IF n = 1 THEN {1} ELSE 0..(n - 1)) }

CheckpointInit ==
    /\ pc = "advance"
    /\ cfg \in CheckpointConfigs
    /\ \E car \in CheckpointCars(Len(cfg.checkpoints)) :
          clients = << [NewClient(0, NameApad) EXCEPT !.cars = << car >>] >>
    /\ clients_incoming = <<>>
    /\ acc_pending = <<>>
    /\ accept_alive = FALSE
    /\ next_id = 1
    /\ server_state \in {Qualifying, Race}
    /\ state_elapsed = 0
    /\ timer0 = 0
    /\ countdown = InitialCountdown
    /\ allow_spawns = TRUE
    /\ force_respawn_pits = TRUE
    /\ allow_respawns = TRUE
    /\ finish_order = <<>>
    /\ joined_names = <<>>
    /\ overlay_incoming = <<>>
    /\ unconnected_overlays = <<>>
    /\ result = "none"

CheckpointTick ==
    /\ pc = "advance"
    /\ \E sv \in Builds(Checkpoints(Sv, TRUE), Checkpoints(Sv, FALSE)) :
          /\ clients' = sv.cl
          /\ pc' = PcAfter(sv.status, "drain")
          /\ result' = ResultAfter(sv.status, TRUE)
    /\ UNCHANGED <<cfg, clients_incoming, acc_pending, accept_alive, next_id,
                   server_state, state_elapsed, timer0, countdown, allow_spawns,
                   force_respawn_pits, allow_respawns, finish_order, joined_names,
                   overlay_incoming, unconnected_overlays>>

CheckpointSpec == CheckpointInit /\ [][CheckpointTick]_vars

\* the car enters the region of its next checkpoint in this evaluation
RisingEdge(car) ==
    /\ car.next_checkpoint < Len(cfg.checkpoints)
    /\ car.pos \in cfg.checkpoints[car.next_checkpoint + 1]
    /\ ~car.intersects_cp

\* C16: on a rising edge at the start line a car that is not going backward
\* gains one lap, records its lap time iff a lap had been started, restarts
\* the lap clock and heads for checkpoint 1; on a rising edge elsewhere the
\* checkpoint becomes the active one and the next one follows, modulo the
\* number of checkpoints; otherwise laps, lap_times, lap_start and
\* next_checkpoint stay as they are.
C16_RisingEdgeAdvancesCheckpoint ==
    [][ (pc = "advance" /\ pc' = "drain") =>
          LET car == clients[1].cars[1]
              new == clients'[1].cars[1]
              n == Len(cfg.checkpoints)
          IN  IF RisingEdge(car) /\ car.next_checkpoint = 0
              THEN /\ LatestVelAngle(car) <= 135
                   /\ new.laps = car.laps + 1
                   /\ new.lap_times = IF car.lap_start # None
                                      THEN Append(car.lap_times, car.lap_start)
                                      ELSE car.lap_times
                   /\ new.lap_start = 0
                   /\ new.next_checkpoint = 1
              ELSE IF RisingEdge(car)
              THEN /\ new.active_checkpoint = car.next_checkpoint
                   /\ new.next_checkpoint = (car.next_checkpoint + 1) % n
              ELSE /\ new.laps = car.laps
                   /\ new.lap_times = car.lap_times
                   /\ new.lap_start = car.lap_start
                   /\ new.next_checkpoint = car.next_checkpoint ]_vars

C16_Witness ==
    /\ pc = "drain"
    /\ Len(cfg.checkpoints) = 3
    /\ clients[1].cars[1].laps = 3
    /\ clients[1].cars[1].lap_times = <<60000, 150000>>
    /\ clients[1].cars[1].lap_start = 0
    /\ clients[1].cars[1].next_checkpoint = 1

(***************************************************************************)
(* The checkpoint block for a car that is going backward.  No statement    *)
(* of this version assigns latest_vel_angle_to_track (the assignment in    *)
(* the track-path block is commented out), so the cars of the other        *)
(* specifications keep Car::new's 0; here the field holds an angle that    *)
(* assignment would store.                                                 *)
(***************************************************************************)
BackwardAngles == {136, 180}

BackwardInit ==
    /\ pc = "advance"
    /\ cfg \in CheckpointConfigs
    /\ \E car \in CheckpointCars(Len(cfg.checkpoints)), a \in BackwardAngles :
          clients = << [NewClient(0, NameApad) EXCEPT
                          !.cars = << [car EXCEPT !.latest_vel_angle_to_track = a] >>] >>
    /\ clients_incoming = <<>>
    /\ acc_pending = <<>>
    /\ accept_alive = FALSE
    /\ next_id = 1
    /\ server_state \in {Qualifying, Race}
    /\ state_elapsed = 0
    /\ timer0 = 0
    /\ countdown = InitialCountdown
    /\ allow_spawns = TRUE
    /\ force_respawn_pits = TRUE
    /\ allow_respawns = TRUE
    /\ finish_order = <<>>
    /\ joined_names = <<>>
    /\ overlay_incoming = <<>>
    /\ unconnected_overlays = <<>>
    /\ result = "none"

BackwardSpec == BackwardInit /\ [][CheckpointTick]_vars

SpawnFrames ==
    { f \in TcpFrames : Len(f) >= 6 /\ f[1] = 79 /\ f[2] = 115
                           /\ Len(SplitN(f, 3, {Colon})) >= 3 }

\* the routing of frame f read from the client at index idx
Spawned(idx, f) == ParsePacket(Rs(clients, <<>>, "ok"), idx, f, TRUE)

\* C18: a denied spawn request sends the Os packet and then the Od packet of
\* the refused car to the requester, sends nothing to anybody else, and
\* leaves the requester's cars as they were.
C18_DeniedSpawnAnswersRequesterOnly ==
    pc = "route" =>
        \A idx \in 1..Len(clients) : \A f \in SpawnFrames :
            ~SpawnAllowed(clients[idx]) =>
                LET c == clients[idx]
                    car_id == FreeCarId(c)
                    rs == Spawned(idx, f)
                IN  /\ rs.status = "ok"
                    /\ rs.out = << Msg(c, "write", OsPacket(c, car_id, SplitN(f, 3, {Colon})[3]), FALSE),
                                   Msg(c, "write", OdPacket(c.id, car_id), FALSE) >>
                    /\ \A k \in 1..Len(rs.out) : rs.out[k].to = c.id
                    /\ rs.cl = clients

\* a second client is in the list when a client that holds max_cars cars
\* can ask for another
C18_Witness ==
    /\ pc = "route"
    /\ Len(clients) = 2
    /\ allow_spawns
    /\ \E idx \in 1..Len(clients) :
          /\ clients[idx].state = Connected
          /\ Len(clients[idx].cars) = cfg.max_cars
          /\ ~SpawnAllowed(clients[idx])
          /\ Spawned(idx, <<79, 115, 58, 48, 58, 123, 125>>).status = "ok"

\* spawns are open and the client holds fewer than max_cars cars
BelowCarLimit(c) ==
    allow_spawns /\ (cfg.max_cars = None \/ Len(c.cars) < cfg.max_cars)

\* C19: a spawn request leaves the client with one more car iff spawns are
\* open and the client holds fewer than max_cars cars; then a GetSize event
\* goes to the owner and the Os packet is queued to every client of the
\* list, the owner included.  No client ever holds more than max_cars cars.
C19_SpawnAddsCarIffAllowed ==
    /\ \A k \in 1..Len(clients) :
          cfg.max_cars # None => Len(clients[k].cars) <= cfg.max_cars
    /\ pc = "route" =>
          \A idx \in 1..Len(clients) : \A f \in SpawnFrames :
              LET c == clients[idx]
                  rs == Spawned(idx, f)
                  os == OsPacket(c, FreeCarId(c), SplitN(f, 3, {Colon})[3])
              IN  /\ rs.status = "ok"
                  /\ Len(rs.cl) = Len(clients)
                  /\ \A k \in 1..Len(clients) : k # idx => rs.cl[k] = clients[k]
                  /\ IF BelowCarLimit(c)
                     THEN /\ rs.cl[idx].cars = Append(c.cars, NewCar(FreeCarId(c)))
                          /\ rs.out = << Msg(c, "event", EventGetSize(c), FALSE) >>
                                \o [k \in 1..Len(clients) |->
                                       Msg(clients[k], "queue", os, TRUE)]
                     ELSE rs.cl[idx].cars = c.cars

\* a client with a car and a client that may spawn one are in the list
C19_Witness ==
    /\ pc = "route"
    /\ Len(clients) = 2
    /\ \E idx, other \in 1..Len(clients) :
          /\ clients[idx].state = Connected
          /\ BelowCarLimit(clients[idx])
          /\ Len(Spawned(idx, <<79, 115, 58, 48, 58, 123, 125>>).cl[idx].cars) = 1
          /\ Len(clients[other].cars) = cfg.max_cars

AllReady(cl) == \A k \in 1..Len(cl) : cl[k].ready

\* C20: WaitingForReady ends in the state-machine step of a tick that finds
\* the ready flag of every client of the list set, and in no other step; that
\* step enters WaitingForSpawns, sets allow_spawns, aborts the accept task
\* and leaves every ready flag cleared.
C20_AllReadyEndsWaitingForReady ==
    [][ server_state = WaitingForReady =>
          IF pc = "advance" /\ pc' # pc /\ AllReady(clients)
          THEN /\ server_state' = WaitingForSpawns
               /\ allow_spawns'
               /\ ~accept_alive'
               /\ Len(clients') = Len(clients)
               /\ \A k \in 1..Len(clients') : ~clients'[k].ready
          ELSE /\ server_state' = WaitingForReady
               /\ allow_spawns' = allow_spawns ]_vars

\* the tick after two clients have both sent their ready command
C20_Witness ==
    /\ server_state = WaitingForSpawns
    /\ state_elapsed = 0
    /\ pc = "drain"
    /\ allow_spawns
    /\ ~accept_alive
    /\ Len(clients) = 2
    /\ \A k \in 1..Len(clients) : ~clients[k].ready /\ clients[k].state = Connected

(***************************************************************************)
(* The end of WaitingForSpawns on its own, for clients that hold up to     *)
(* MaxCarsPerClient cars each (max_cars is not configured).                *)
(***************************************************************************)
MaxCarsPerClient == 128

CarCounts == {0, 1, MaxCarsPerClient}

ManyCarsConfig ==
    [TwoCheckpointConfig EXCEPT !.max_cars = None,
                                !.expected_clients = << <<97, 32>>, <<99>> >>]

ClientWithCars(id, name, n, r) ==
    [NewClient(id, name) EXCEPT !.cars = [k \in 1..n |-> NewCar(k - 1)], !.ready = r]

RespawnInit ==
    /\ pc = "advance"
    /\ cfg = ManyCarsConfig
    /\ \E n0, n1 \in CarCounts, r0, r1 \in BOOLEAN :
          clients \in { << ClientWithCars(0, NameApad, n0, r0) >>,
                        << ClientWithCars(0, NameApad, n0, r0),
                           ClientWithCars(1, NameC, n1, r1) >> }
    /\ clients_incoming = <<>>
    /\ acc_pending = <<>>
    /\ accept_alive = FALSE
    /\ next_id = 2
    /\ server_state = WaitingForSpawns
    /\ state_elapsed \in Dt
    /\ timer0 = 0
    /\ countdown = InitialCountdown
    /\ allow_spawns = TRUE
    /\ force_respawn_pits = FALSE
    /\ allow_respawns = FALSE
    /\ finish_order = <<>>
    /\ joined_names = <<>>
    /\ overlay_incoming = <<>>
    /\ unconnected_overlays = <<>>
    /\ result = "none"

RespawnSpec == RespawnInit /\ [][Advance]_vars

(***************************************************************************)
(* The race of one client after its car has completed its lap (max_laps =  *)
(* 0), with the traffic of an orderly event: the states in which the       *)
(* orderly server enters a tick with its only client finished.             *)
(***************************************************************************)
RaceDoneClient ==
    [ClientWithCars(0, NameApad, 1, TRUE) EXCEPT
        !.finished = TRUE, !.grid_spot = 1, !.udp_addr = 1,
        !.cars[1].lap_start = 0, !.cars[1].pos = 1, !.cars[1].laps = 1,
        !.cars[1].next_checkpoint = 1, !.cars[1].intersects_cp = TRUE]

RaceDoneInit ==
    /\ pc = "drain"
    /\ cfg \in Configs
    /\ clients = << RaceDoneClient >>
    /\ clients_incoming = <<>>
    /\ acc_pending = <<>>
    /\ accept_alive = FALSE
    /\ next_id = 1
    /\ server_state = Race
    /\ state_elapsed \in {0, 150000, 300000, MaxElapsed}
    /\ timer0 = 0
    /\ countdown = 0
    /\ allow_spawns = FALSE
    /\ force_respawn_pits = TRUE
    /\ allow_respawns = FALSE
    /\ finish_order = <<0>>
    /\ joined_names = <<>>
    /\ overlay_incoming = <<>>
    /\ unconnected_overlays = <<>>
    /\ result = "ok"

\* the main loop never stops ticking (as in FairSpec)
RaceDoneSpec == RaceDoneInit /\ [][OrderlyTick]_vars /\ WF_vars(OrderlyTick)

EveryoneHasCar(cl) == \A k \in 1..Len(cl) : Len(cl[k].cars) > 0

\* the events of the state-machine step of this tick: addressee and payload
EventsOfTick ==
    LET out == SelectSeq(AdvanceFrom(Sv, <<>>, FALSE).out, LAMBDA m : m.via = "event")
    IN  [k \in 1..Len(out) |-> << out[k].to, out[k].data >>]

\* C21: WaitingForSpawns ends in the state-machine step of a tick that finds
\* a car with every client of the list, and in no other step; that step
\* enters Qualifying, closes the spawns, sets force_respawn_pits and sends
\* the owner of the k-th car (clients in list order, cars in order, k from
\* 0) a Respawn event with pit spawn slot k.
C21_AllSpawnedEndsWaitingForSpawns ==
    [][ server_state = WaitingForSpawns =>
          IF pc = "advance" /\ pc' # pc /\ EveryoneHasCar(clients)
          THEN /\ pc' = "drain"
               /\ server_state' = Qualifying
               /\ ~allow_spawns'
               /\ force_respawn_pits'
               /\ LET ow == CarOwners(clients)
                  IN  EventsOfTick =
                        [k \in 1..Len(ow) |->
                           << ow[k].id,
                              EventRespawn \o SpawnData(GetClientSpawn(TrackSpawnsPit, k - 1)) >>]
          ELSE /\ server_state' = WaitingForSpawns
               /\ allow_spawns' = allow_spawns ]_vars

CarIsReset(car) ==
    /\ car.laps = 0
    /\ car.lap_times = <<>>
    /\ car.next_checkpoint = 0
    /\ car.lap_start = None
    /\ car.offtrack_start = None

\* C22: a step leaves Qualifying only when qual_time seconds (120 unless
\* configured) have passed since its entry; it enters LiningUp with every
\* car reset (no laps, no lap times, next checkpoint 0, no lap clock, no
\* off-track timer), respawns and spawns closed, force_respawn_pits off and
\* every ready flag cleared.
C22_QualifyingExitResets ==
    [][ (server_state = Qualifying /\ server_state' # Qualifying) =>
          /\ pc = "advance"
          /\ state_elapsed >= 1000 * (IF cfg.qual_time = None THEN 120 ELSE cfg.qual_time)
          /\ server_state' = LiningUp
          /\ ~allow_respawns'
          /\ ~allow_spawns'
          /\ ~force_respawn_pits'
          /\ Len(clients') = Len(clients)
          /\ \A k \in 1..Len(clients') :
                /\ ~clients'[k].ready
                /\ Len(clients'[k].cars) = Len(clients[k].cars)
                /\ \A j \in 1..Len(clients'[k].cars) : CarIsReset(clients'[k].cars[j]) ]_vars

\* LiningUp just entered by two clients whose cars are reset
C22_Witness ==
    /\ server_state = LiningUp
    /\ state_elapsed = 0
    /\ pc = "drain"
    /\ Len(clients) = 2
    /\ ~allow_respawns
    /\ ~force_respawn_pits
    /\ \A k \in 1..Len(clients) :
          ~clients[k].ready /\ Len(clients[k].cars) = 1 /\ CarIsReset(clients[k].cars[1])

\* the ids of the clients this tick's state-machine step kicks with text
KickedWith(text) ==
    LET out == AdvanceFrom(Sv, <<>>, FALSE).out
    IN  { out[k].to : k \in { j \in 1..Len(out) : out[j].via = "kick" /\ out[j].data = text } }

TickOutcomes ==
    UNION { Builds(AdvanceFrom(SvAt(idx), order, TRUE), AdvanceFrom(SvAt(idx), order, FALSE)) :
              idx \in TrackLimitsClients, order \in Orders(Sv) }

\* the clients whose overlay was written data, one entry per write, in order
OverlayReceivers(sv, data) ==
    LET out == SelectSeq(sv.out, LAMBDA m : m.via = "overlay" /\ m.data = data)
    IN  [k \in 1..Len(out) |-> out[k].to]

\* the clients of the list that have an overlay, in list order
OverlayHolders(cl) ==
    LET with == SelectSeq(cl, LAMBDA c : c.overlay # None)
    IN  [k \in 1..Len(with) |-> with[k].id]

\* C24: Countdown is entered with the counter at 5; in Countdown the counter
\* changes only in a state-machine step that finds more than 1000 ms on the
\* timer, by exactly 1 and not below 0, restarting the timer and writing
\* "C<new value>" once to the overlay of every client that has one; a step
\* that leaves the counter alone writes no counter value; the phase is left
\* only for Race, only by a step that finds the counter at 0 and more than
\* 1000 ms on the timer, and that step sets force_respawn_pits.
C24_CountdownStepsToRace ==
    [][ /\ (server_state # Countdown /\ server_state' = Countdown) => countdown' = 5
        /\ server_state = Countdown =>
              /\ countdown' \in {countdown, countdown - 1}
              /\ countdown' >= 0
              /\ countdown' # countdown =>
                    /\ pc = "advance"
                    /\ timer0 > 1000
                    /\ timer0' = 0
                    /\ server_state' = Countdown
                    /\ \A sv \in TickOutcomes :
                          OverlayReceivers(sv, <<67, 48 + countdown'>>) = OverlayHolders(clients)
              /\ (countdown' = countdown /\ pc = "advance" /\ pc' # pc) =>
                    \A sv \in TickOutcomes : \A n \in 0..5 :
                        OverlayReceivers(sv, <<67, 48 + n>>) = <<>>
              /\ server_state' \in {Countdown, Race}
              /\ server_state' = Race =>
                    /\ pc = "advance"
                    /\ countdown = 0
                    /\ timer0 > 1000
                    /\ force_respawn_pits' ]_vars

\* the race has just started for two clients, one of them with an overlay
C24_Witness ==
    /\ server_state = Race
    /\ state_elapsed = 0
    /\ pc = "drain"
    /\ countdown = 0
    /\ force_respawn_pits
    /\ Len(clients) = 2
    /\ \E k \in 1..Len(clients) : clients[k].overlay # None

\* ServerState in the order of its declaration: the id of a phase is its
\* place in this list, counted from 0
PhaseOrder ==
    << Unknown, WaitingForClients, WaitingForReady, WaitingForSpawns, Qualifying,
       LiningUp, Countdown, Race, Finish >>

\* C25: the phase changes only in the state-machine step of a tick, and that
\* step writes "S<n>", n the id of the new phase (Unknown 0, WaitingForClients
\* 1, WaitingForReady 2, WaitingForSpawns 3, Qualifying 4, LiningUp 5,
\* Countdown 6, Race 7, Finish 8), once to the overlay of every client of the
\* list that has one.
C25_PhaseChangePushesStateId ==
    [][ server_state' # server_state =>
          /\ pc = "advance"
          /\ \E n \in 0..8 :
                /\ PhaseOrder[n + 1] = server_state'
                /\ \A sv \in TickOutcomes :
                      sv.st = server_state' =>
                          OverlayReceivers(sv, <<83, 48 + n>>) = OverlayHolders(clients) ]_vars

\* Qualifying has just begun and both clients of the list have their overlay
C25_Witness ==
    /\ server_state = Qualifying
    /\ state_elapsed = 0
    /\ pc = "drain"
    /\ Len(clients) = 2
    /\ \A k \in 1..Len(clients) : clients[k].overlay # None
    /\ \E k \in 1..Len(clients) : clients[k].state = Connected

\* C26: a client of the list holds at most one overlay, and an overlay it
\* holds stays its overlay for as long as the client is in the list: no
\* overlay that arrives later under the same username takes its place.
C26_FirstOverlayWins ==
    [][ \A k \in 1..Len(clients) : \A j \in 1..Len(clients') :
          (clients[k].id = clients'[j].id /\ clients[k].overlay # None)
              => clients'[j].overlay = clients[k].overlay ]_vars

(***************************************************************************)
(* Broadcasts                                                              *)
(***************************************************************************)
\* frames that go to the peers of the sender: "Ot:0-0", and frames whose
\* first byte is one of 86..89, bare, with a body, and in the envelope
PeerFrames ==
    { <<79, 116, 58, 48, 45, 48>>, <<86>>, <<87, 58, 49>>, <<88>>, <<89, 48>>,
      ABG \o <<120, 86, 49>> }

\* frames that go to everybody: "Om:0-0", and the same in the envelope
AllFrames == { <<79, 109, 58, 48, 45, 48>>, ABG \o <<120, 79, 109, 58, 48, 45, 48>> }

\* the packet a frame carries
Opened(f) == IF IsCompressed(f) THEN Decompress(SubSeq(f, 5, Len(f))) ELSE f

\* the datagram with payload raw of the client at index idx, from addr
RoutedUdp(idx, addr, raw) == ParsePacketUdp(Rs(clients, <<>>, "ok"), idx, addr, raw, TRUE)

\* the ids of the clients at the indices ks, in list order
IdsAt(cl, ks) ==
    LET sel == SelectSeq([k \in 1..Len(cl) |-> k], LAMBDA k : k \in ks)
    IN  [j \in 1..Len(sel) |-> cl[sel[j]].id]

\* who is handed the packet data in out, and how: one entry per packet
Handed(out, data, via) ==
    LET sel == SelectSeq(out, LAMBDA m : m.data = data /\ m.via = via)
    IN  [j \in 1..Len(sel) |-> sel[j].to]

\* C27: an "O t" frame (of the 6 bytes a vehicle packet has at least) and a
\* frame whose first byte is one of 86..89, read from a client, is queued
\* once to every other client of the list and not to the sender; an "O m"
\* frame is queued once to every client of the list, the sender included; a
\* pass-through datagram is sent once to every other client whose UDP address
\* is known and to nobody else; and none of them does anything else.
C27_BroadcastReceivers ==
    pc = "route" => \A idx \in 1..Len(clients) :
        LET everybody == 1..Len(clients)
            peers == everybody \ {idx}
        IN  /\ \A f \in PeerFrames :
                  LET rs == Spawned(idx, f)
                  IN  /\ rs.status = "ok"
                      /\ rs.cl = clients
                      /\ Handed(rs.out, Opened(f), "queue") = IdsAt(clients, peers)
                      /\ Len(rs.out) = Cardinality(peers)
                      /\ \A k \in 1..Len(rs.out) : rs.out[k].to # clients[idx].id
            /\ \A f \in AllFrames :
                  LET rs == Spawned(idx, f)
                  IN  /\ rs.status = "ok"
                      /\ rs.cl = clients
                      /\ Handed(rs.out, Opened(f), "queue") = IdsAt(clients, everybody)
                      /\ Len(rs.out) = Len(clients)
            /\ \A addr \in Addrs : \A f \in { <<86>>, <<89, 48>> } :
                  LET rs == RoutedUdp(idx, addr, f)
                      known == { k \in peers : clients[k].udp_addr # None }
                  IN  /\ rs.status = "ok"
                      /\ Handed(rs.out, f, "udp") = IdsAt(clients, known)
                      /\ Len(rs.out) = Cardinality(known)

\* two connected clients, of which only the first has been heard from over
\* UDP: what each of them sends reaches the other, the datagram of the first
\* reaches nobody
C27_Witness ==
    /\ pc = "route"
    /\ Len(clients) = 2
    /\ \A k \in 1..Len(clients) : clients[k].state = Connected
    /\ clients[1].udp_addr # None
    /\ clients[2].udp_addr = None
    /\ Handed(Spawned(1, <<79, 116, 58, 48, 45, 48>>).out, <<79, 116, 58, 48, 45, 48>>, "queue")
          = << clients[2].id >>
    /\ Handed(Spawned(1, <<79, 109, 58, 48, 45, 48>>).out, <<79, 109, 58, 48, 45, 48>>, "queue")
          = << clients[1].id, clients[2].id >>
    /\ RoutedUdp(1, 1, <<86>>).out = <<>>
    /\ Handed(RoutedUdp(2, 1, <<86>>).out, <<86>>, "udp") = << clients[1].id >>

(***************************************************************************)
(* Chat                                                                    *)
(***************************************************************************)
\* chat frames "C:a:<text>": the commands, with blanks around them, with more
\* fields behind them, misspelt; plain text; a frame of two fields; a command
\* that is not the third field; and two of them in the envelope
ChatFrames ==
    { <<67, 58, 97, 58>> \o t : t \in
        { <<33, 114, 101, 97, 100, 121>>, <<32, 33, 114, 101, 97, 100, 121, 32>>,
          <<33, 114, 101, 97, 100, 121, 58, 120>>, <<33, 114, 101, 97, 100, 121, 121>>,
          <<33, 114, 101, 97, 100, 121, 32, 120>>, <<33>>, <<33, 120>>, <<33, 112, 111, 115>>,
          <<104, 105>>, <<104, 105, 33>>, <<32>>, <<>>, <<120, 58, 33, 114, 101, 97, 100, 121>> } }
      \cup { <<67, 58, 97>>, <<67>>,
             ABG \o <<120, 67, 58, 97, 58, 33, 114, 101, 97, 100, 121>>,
             ABG \o <<120, 67, 58, 97, 58, 104, 105>> }

\* the message of a chat packet: its third colon-separated field, trimmed
ChatMessage(f) ==
    LET parts == Split(Opened(f), {Colon})
    IN  IF Len(parts) >= 3 THEN Trim(parts[3]) ELSE <<>>

\* C28: a chat frame whose trimmed message begins with "!" is queued to no
\* client as a broadcast: "!ready" sets the ready flag of the sender, changes
\* nothing else and queues "C:Server:You are now ready!" to the sender alone;
\* "!pos" queues nothing and changes nothing; every other command queues
\* "C:Server:Unknown command!" to the sender alone and changes nothing.  Any
\* other chat frame is queued, as it was read, once to every client of the
\* list, the sender included, and changes nothing.
C28_ChatCommandsStayPrivate ==
    pc = "route" => \A idx \in 1..Len(clients) : \A f \in ChatFrames :
        LET c == clients[idx]
            rs == Spawned(idx, f)
            message == ChatMessage(f)
        IN  IF message # <<>> /\ message[1] = 33
            THEN /\ \A k \in 1..Len(rs.out) : ~rs.out[k].bcast /\ rs.out[k].data # Opened(f)
                 /\ IF message = <<33, 114, 101, 97, 100, 121>>
                    THEN /\ rs.status = "ok"
                         /\ rs.cl = [clients EXCEPT ![idx].ready = TRUE]
                         /\ rs.out = << Msg(c, "queue", ReadyReply, FALSE) >>
                    ELSE IF message = <<33, 112, 111, 115>>
                    THEN /\ rs.cl = clients
                         /\ rs.out = <<>>
                    ELSE /\ rs.status = "ok"
                         /\ rs.cl = clients
                         /\ rs.out = << Msg(c, "queue", UnknownReply, FALSE) >>
            ELSE /\ rs.status = "ok"
                 /\ rs.cl = clients
                 /\ Handed(rs.out, Opened(f), "queue") = IdsAt(clients, 1..Len(clients))
                 /\ Len(rs.out) = Len(clients)

\* the second of two connected clients, not ready yet, sends "!ready" and
\* then says "hi"
C28_Witness ==
    /\ pc = "route"
    /\ Len(clients) = 2
    /\ \A k \in 1..Len(clients) : clients[k].state = Connected /\ ~clients[k].ready
    /\ Spawned(2, <<67, 58, 97, 58, 33, 114, 101, 97, 100, 121>>).cl[2].ready
    /\ ~Spawned(2, <<67, 58, 97, 58, 33, 114, 101, 97, 100, 121>>).cl[1].ready
    /\ Len(Spawned(2, <<67, 58, 97, 58, 33, 114, 101, 97, 100, 121>>).out) = 1
    /\ Len(Spawned(2, <<67, 58, 97, 58, 104, 105>>).out) = 2

(***************************************************************************)
(* Position datagrams                                                      *)
(***************************************************************************)
\* "Zp:<cid>-<car_id>:{p}"
ZPacket(client_id, car_id, p) ==
    <<90, 112, 58>> \o Dec(client_id) \o <<Dash>> \o Dec(car_id) \o <<58, 123>> \o Dec(p) \o <<125>>

\* C29: a Z datagram read from the client at index idx that names a car
\* (cid, car_id) some client of the list holds is handled without an error,
\* stores its position with that car, and is sent as it was read, once, to
\* every client of the list other than the sender whose UDP address is known,
\* and to nobody else.
C29_ZForwardedToOthers ==
    pc = "route" =>
        \A idx, own \in 1..Len(clients) : \A addr \in Addrs : \A p \in Points :
        \A j \in 1..Len(clients[own].cars) :
            LET car_id == clients[own].cars[j].id
                f == ZPacket(clients[own].id, car_id, p)
                rs == RoutedUdp(idx, addr, f)
                known == { k \in 1..Len(clients) \ {idx} : clients[k].udp_addr # None }
            IN  /\ rs.status = "ok"
                /\ GetCar(rs.cl[own], car_id).pos = p
                /\ Handed(rs.out, f, "udp") = IdsAt(clients, known)
                /\ Len(rs.out) = Cardinality(known)
                /\ \A k \in 1..Len(rs.out) : rs.out[k].to # clients[idx].id

(***************************************************************************)
(* The removal step on its own, for lists of up to MaxRemovalClients       *)
(* clients, connected or in Disconnect, that hold up to MaxOwnedCars cars  *)
(* each (max_cars is not configured).                                      *)
(***************************************************************************)
MaxRemovalClients == 3
MaxOwnedCars == 2

RemovalLists ==
    UNION { [ 1..n -> { [ClientWithCars(0, NameC, cars, FALSE) EXCEPT !.state = st] :
                           cars \in 0..MaxOwnedCars, st \in {Connected, Disconnect} } ] :
              n \in 1..MaxRemovalClients }

RemovalInit ==
    /\ pc = "remove"
    /\ cfg = ManyCarsConfig
    /\ \E cl \in RemovalLists :
          clients = [k \in 1..Len(cl) |-> [cl[k] EXCEPT !.id = k - 1]]
    /\ clients_incoming = <<>>
    /\ acc_pending = <<>>
    /\ accept_alive = FALSE
    /\ next_id = MaxRemovalClients
    /\ server_state = WaitingForSpawns
    /\ state_elapsed = 0
    /\ timer0 = 0
    /\ countdown = InitialCountdown
    /\ allow_spawns = TRUE
    /\ force_respawn_pits = FALSE
    /\ allow_respawns = FALSE
    /\ finish_order = <<>>
    /\ joined_names = <<>>
    /\ overlay_incoming = <<>>
    /\ unconnected_overlays = <<>>
    /\ result = "none"

RemovalSpec == RemovalInit /\ [][Remove]_vars

\* the cars the server holds, each with the id of its client
CarsOf(cl) ==
    UNION { { << cl[k].id, cl[k].cars[j].id >> : j \in 1..Len(cl[k].cars) } : k \in 1..Len(cl) }

\* how often the packet data is handed to the client with this id in out
TimesHanded(out, data, id) ==
    Cardinality({ m \in 1..Len(out) : out[m].data = data /\ out[m].to = id })

\* C30: the removal step removes only clients that are in Disconnect; for
\* every car of a client it removes it broadcasts "Od:<cid>-<car_id>", which
\* every client that stays in the list is queued once, and it broadcasts
\* nothing else; afterwards the cars the server holds are the cars of the
\* clients that stay in the list, each still with its client: no car of a
\* removed client is left.
C30_RemovedClientsCarsDeleted ==
    [][ (pc = "remove" /\ pc' # pc) =>
          LET out == RemoveDisconnected(clients).out
              gone == { k \in 1..Len(clients) : clients[k].id \notin Ids(clients') }
              ods == UNION { { <<79, 100, 58>> \o Dec(clients[k].id) \o <<45>> \o Dec(clients[k].cars[j].id) :
                                 j \in 1..Len(clients[k].cars) } : k \in gone }
          IN  /\ \A k \in gone : clients[k].state = Disconnect
              /\ \A od \in ods : \A r \in 1..Len(clients') :
                    TimesHanded(out, od, clients'[r].id) = 1
              /\ \A m \in 1..Len(out) : out[m].data \in ods /\ out[m].via = "queue"
              /\ CarsOf(clients') = CarsOf(clients) \ { << clients[k].id, car_id >> :
                                                          k \in gone, car_id \in 0..(MaxOwnedCars - 1) }
              /\ \A r \in 1..Len(clients') : \E k \in 1..Len(clients) \ gone :
                    clients'[r] = clients[k] ]_vars

\* the last of three clients is in Disconnect and holds two cars, the other
\* two are connected and hold cars; the step removes it and queues the two
\* packets to all three
C30_Witness ==
    /\ pc = "remove"
    /\ Len(clients) = 3
    /\ clients[3].state = Disconnect
    /\ Len(clients[3].cars) = 2
    /\ \A k \in {1, 2} : clients[k].state = Connected /\ clients[k].cars # <<>>
    /\ RemoveDisconnected(clients).status = "ok"
    /\ RemoveDisconnected(clients).cl = << clients[1], clients[2] >>
    /\ Len(RemoveDisconnected(clients).out) = 6

(***************************************************************************)
(* Adoption of staged sessions (process, the two try_lock blocks)          *)
(***************************************************************************)
\* how many members of the list cl carry the id
TimesListed(cl, id) == Cardinality({ k \in 1..Len(cl) : cl[k].id = id })

\* C31: when the main task gets the staging lock with N staged sessions, the
\* drain leaves every one of the N sessions in the live client list exactly
\* once, empties the staging list and the tick goes on to routing; when the
\* acceptor holds the lock the staging list is left as it is and the tick
\* goes on all the same.  The overlay staging list is emptied the same way.
C31_DrainAdoptsAllStaged ==
    [][ (pc = "drain" /\ pc' # pc) =>
          /\ pc' = "route"
          /\ overlay_incoming' = <<>>
          /\ IF acc_pending = <<>>
             THEN /\ clients_incoming' = <<>>
                  /\ Len(clients') = Len(clients) + Len(clients_incoming)
                  /\ \A k \in 1..Len(clients_incoming) :
                        TimesListed(clients', clients_incoming[k].id) = 1
             ELSE /\ clients_incoming' = clients_incoming
                  /\ Len(clients') = Len(clients) ]_vars

(***************************************************************************)
(* The place of the state-machine step in the tick (process)               *)
(***************************************************************************)
\* C32: every tick evaluates the state-machine step, as its last step: a
\* tick that has started (the program counter has left "drain") gets back
\* to the start of the next tick only from the step that evaluates the state
\* machine, after routing and removal have run to their end.
C32_TickEndsWithStateMachine ==
    [][ (pc # "drain" /\ pc' = "drain") => pc = "advance" ]_vars

(***************************************************************************)
(* One client per tick (process, track limits and checkpoints)             *)
(***************************************************************************)
\* what the checkpoint block keeps of a car
Progress(car) ==
    << car.id, car.next_checkpoint, car.active_checkpoint, car.intersects_cp, car.laps >>

\* the clients of the list whose cars have another checkpoint progress after
\* the step than before it
Progressed ==
    { k \in 1..Len(clients) :
        \E j \in 1..Len(clients[k].cars) :
            Progress(clients'[k].cars[j]) # Progress(clients[k].cars[j]) }

\* C33: in Qualifying and Race a tick evaluates checkpoint progression for
\* the cars of one client only, the client the track_limits_client cursor
\* selects: in a tick that keeps the phase and the client list, the cars of
\* at most one client change their checkpoint progress.
C33_OneClientPerTick ==
    [][ ( /\ pc = "advance"
          /\ pc' = "drain"
          /\ server_state \in {Qualifying, Race}
          /\ server_state' = server_state
          /\ Len(clients') = Len(clients)
          /\ \A k \in 1..Len(clients) : Len(clients'[k].cars) = Len(clients[k].cars) )
        => Cardinality(Progressed) <= 1 ]_vars

(***************************************************************************)
(* The order of the phases (process, the state machine)                    *)
(***************************************************************************)
\* C34: the phase changes only to its immediate successor in the order
\* WaitingForClients, WaitingForReady, WaitingForSpawns, Qualifying,
\* LiningUp, Countdown, Race, Finish: never backward, never past a phase,
\* never to Unknown, and only in the state-machine step, which a tick takes
\* at most once.
C34_PhaseMovesToSuccessor ==
    [][ server_state' # server_state =>
          /\ pc = "advance"
          /\ pc' # "advance"
          /\ \E n \in 2..(Len(PhaseOrder) - 1) :
                /\ server_state = PhaseOrder[n]
                /\ server_state' = PhaseOrder[n + 1] ]_vars

\* a race is on with a client in it: the phase has been through every
\* change from WaitingForClients to Race
C34_Witness ==
    /\ server_state = Race
    /\ pc = "drain"
    /\ clients # <<>>
    /\ clients[1].cars # <<>>

(***************************************************************************)
(* Whose cars a packet touches (parse_vehicle_packet, parse_packet_udp)    *)
(***************************************************************************)
\* the TCP frames "Oc:<cid>-<car>:{}", "Od:<cid>-<car>", "Or:<cid>-<car>:{p}"
\* and "E:SetSize:<cid>;1;1;1" that name the car (client_id, car_id)
CarFrames(client_id, car_id) ==
    { <<79, 99, 58>> \o Dec(client_id) \o <<Dash>> \o Dec(car_id) \o <<58, 123, 125>>,
      OdPacket(client_id, car_id),
      <<69, 58, 83, 101, 116, 83, 105, 122, 101, 58>> \o Dec(client_id) \o <<59, 49, 59, 49, 59, 49>> }
    \cup { <<79, 114, 58>> \o Dec(client_id) \o <<Dash>> \o Dec(car_id) \o <<58, 123>> \o Dec(p) \o <<125>> :
             p \in Points }

\* C35: routing a packet read from client A ("O c", "O d", "O r", "E SetSize"
\* over TCP, "Z" over UDP), whatever client and car the packet names, leaves
\* the cars of every other client B as they were: the same cars, with the same
\* position, checkpoint and lap state as if A had sent nothing.
C35_PacketsTouchOwnCarsOnly ==
    pc = "route" =>
        \A a, b \in 1..Len(clients) : \A named \in 1..Len(clients) :
        \A car_id \in 0..(MaxOwnedCars - 1) :
            a # b =>
                /\ \A f \in CarFrames(clients[named].id, car_id) :
                      LET rs == Spawned(a, f)
                      IN  rs.status # "panic" => rs.cl[b].cars = clients[b].cars
                /\ \A addr \in Addrs : \A p \in Points :
                      LET rs == RoutedUdp(a, addr, ZPacket(clients[named].id, car_id, p))
                      IN  rs.status # "panic" => rs.cl[b].cars = clients[b].cars

(***************************************************************************)
(* Laps and the respawn packet: a race on the track of two checkpoints in  *)
(* which the only car has just completed its first lap.  Positions packets *)
(* carry are members of Points: the car can be outside every checkpoint    *)
(* (0) or inside checkpoint 0 (1), and never inside checkpoint 1 (2).      *)
(***************************************************************************)
MaxRaceLaps == 2

LapClient ==
    [RaceDoneClient EXCEPT !.cars[1].active_checkpoint = Len(TwoCheckpointConfig.checkpoints) - 1]

LapInit ==
    /\ pc = "drain"
    /\ cfg = TwoCheckpointConfig
    /\ clients = << LapClient >>
    /\ clients_incoming = <<>>
    /\ acc_pending = <<>>
    /\ accept_alive = FALSE
    /\ next_id = 1
    /\ server_state = Race
    /\ state_elapsed \in {0, 150000}
    /\ timer0 = 0
    /\ countdown = 0
    /\ allow_spawns = FALSE
    /\ force_respawn_pits = TRUE
    /\ allow_respawns = FALSE
    /\ finish_order = <<0>>
    /\ joined_names = <<>>
    /\ overlay_incoming = <<>>
    /\ unconnected_overlays = <<>>
    /\ result = "ok"

LapAdvance == AdvanceUpTo(MaxRaceLaps)

LapNext == Drain \/ Route \/ Remove \/ LapAdvance

LapSpec == LapInit /\ [][LapNext]_vars

\* no car is inside one of the checkpoints 1..N-1
OffLaterCheckpoints(cl) ==
    \A k \in 1..Len(cl) : \A j \in 1..Len(cl[k].cars) :
    \A n \in 2..Len(cfg.checkpoints) : cl[k].cars[j].pos \notin cfg.checkpoints[n]

\* C36: with N >= 2 checkpoints, between two increases of a car's lap count
\* the car has entered each of the checkpoints 1..N-1, whatever packets the
\* clients send: as long as no car is inside one of the checkpoints 1..N-1,
\* the only lap a tick counts for a car is its first one (from 0 to 1).
C36_LapNeedsTraversal ==
    [][ ( /\ OffLaterCheckpoints(clients) /\ OffLaterCheckpoints(clients')
          /\ Len(clients') = Len(clients) )
        => \A k \in 1..Len(clients) :
              Len(clients'[k].cars) = Len(clients[k].cars) =>
                  \A j \in 1..Len(clients[k].cars) :
                      clients'[k].cars[j].laps > clients[k].cars[j].laps
                          => clients[k].cars[j].laps = 0 ]_vars

(***************************************************************************)
(* An error in the middle of routing (process, the `?` of the two loops)   *)
(***************************************************************************)
\* what Client::process returns in a tick in which the client at index a
\* sends the frame g and the client at index b the frame f
TwoFrames(a, g, b, f) ==
    [k \in 1..Len(clients) |->
        IF k = a THEN [kind |-> "packet", data |-> g]
        ELSE IF k = b THEN [kind |-> "packet", data |-> f] ELSE NoRead]

\* the same tick without the frame of the client at index a
OneFrame(b, f) ==
    [k \in 1..Len(clients) |-> IF k = b THEN [kind |-> "packet", data |-> f] ELSE NoRead]

\* C37: when routing one packet of a tick returns an error, the other packets
\* read in that tick are routed all the same: if the frame read from client A
\* is refused with an error, the frame read from client B in the same tick
\* has the effect it has without the frame of A, on the packets handed out
\* and on the ready marks and cars of the clients.
C37_ErrorLeavesOtherPacketsRouted ==
    pc = "route" =>
        \A a, b \in 1..Len(clients) : \A g, f \in TcpFrames :
            ( /\ a # b
              /\ RouteTcp(clients, OneFrame(a, g), <<>>, TRUE).status = "err" )
            => LET alone == RouteTcp(clients, OneFrame(b, f), <<>>, TRUE)
                   both == RouteTcp(clients, TwoFrames(a, g, b, f), <<>>, TRUE)
               IN  alone.status = "ok" =>
                      /\ \A m \in 1..Len(alone.out) : \E n \in 1..Len(both.out) :
                            both.out[n] = alone.out[m]
                      /\ \A k \in 1..Len(clients) :
                            /\ both.cl[k].ready = alone.cl[k].ready
                            /\ both.cl[k].cars = alone.cl[k].cars

(***************************************************************************)
(* Cars during the race (process, ServerState::Race)                       *)
(***************************************************************************)
\* C38: in phase Race every client of the list owns at least one car, so the
\* finish check of the tick, which reads cars[0] of every client, is defined
\* and the tick of a race never ends in a panic.
C38_RaceClientsHaveCars ==
    /\ server_state = Race => \A k \in 1..Len(clients) : clients[k].cars # <<>>
    /\ (server_state = Race /\ pc = "advance") =>
          StateMachine(Whitelist(Sv), <<>>, TRUE).status # "panic"

(***************************************************************************)
(* The policy flags of each phase (Server::new, the state machine)         *)
(***************************************************************************)
\* C39: at the end of every tick the policy flags are those of the phase:
\* allow_spawns is set exactly in WaitingForSpawns, force_respawn_pits
\* exactly in Qualifying, Race and Finish, allow_respawns exactly in
\* WaitingForClients, WaitingForReady, WaitingForSpawns and Qualifying.
C39_FlagsFollowPhase ==
    pc = "drain" =>
        /\ allow_spawns <=> server_state = WaitingForSpawns
        /\ force_respawn_pits <=> server_state \in {Qualifying, Race, Finish}
        /\ allow_respawns <=>
              server_state \in {WaitingForClients, WaitingForReady, WaitingForSpawns, Qualifying}

\* a tick has ended in Race, after the flags have been through the settings
\* of every phase before it
C39_Witness ==
    /\ pc = "drain"
    /\ server_state = Race
    /\ ~allow_spawns /\ force_respawn_pits /\ ~allow_respawns
    /\ result = "ok"

(***************************************************************************)
(* Phase changes and the empty client list                                 *)
(***************************************************************************)
\* C40: the phase leaves WaitingForReady, WaitingForSpawns and LiningUp only
\* while there is a client in the list: "every client is ready" and "every
\* client has a car" are never met by an empty list.
C40_NoAdvanceWithoutClients ==
    [][ ( /\ server_state \in {WaitingForReady, WaitingForSpawns, LiningUp}
          /\ server_state' # server_state )
        => clients # <<>> ]_vars
====
